---- MODULE Spec2Model ----
(***************************************************************************)
(* Business verification engine: the verify-business and                   *)
(* verify-business-batch edge functions, the check_rate_limit,             *)
(* check_verification_allowance and increment_verification_usage database  *)
(* functions, and the tables they work on.                                 *)
(*                                                                         *)
(* One action is one event-loop turn of a handler (the code between two    *)
(* awaits) or one SQL statement of a database function.  Time is counted   *)
(* in ticks, Hour ticks to the hour.                                       *)
(***************************************************************************)
EXTENDS Integers, Sequences, FiniteSets, TLC

\* ------------------------------------------------------------------ bounds
Hour == 2
MaxTime == 3
MaxArrivals == 2
MaxSeqArrivals == 7
MaxHookArrivals == 2
MaxQuotaArrivals == 6
MaxBatch == 3
MaxMixedBatch == 2
MaxUsageArrivals == 3
MaxThresholdArrivals == 2
MaxPageArrivals == 2
MaxScanArrivals == 1
MaxWide == 5

\* ------------------------------------------------------- program constants
CACHE_DURATION_MS == 1 * Hour
p_max_requests == 5
p_window_hours == 1
DEFAULT_MIN_TRANSACTIONS == 100
DEFAULT_MIN_UNIQUE_WALLETS == 10
BasicLimit == 5
Month == 30 * 24 * Hour

VARIABLES
  now,            \* the clock
  rate_limits,    \* table verification_rate_limits
  verifications,  \* table business_verifications
  subscriptions,  \* table user_subscriptions
  nextId,         \* the next id gen_random_uuid() hands out
  arrivals,       \* number of verify-business requests received so far
  req,            \* the verify-business requests being served, by slot
  hooks,          \* the webhook delivery sequences started so far
  seen,           \* history: per address, the checks of its first rate-limit window
  batch,          \* the verify-business-batch request being served
  ent             \* its processVerification calls, by position in the batch

vars == <<now, rate_limits, verifications, subscriptions, nextId, arrivals, req, hooks, seen,
          batch, ent>>

\* ----------------------------------------------------------------- values
\* A JSON field that is absent from the body (undefined in the handler).
Undefined == "<undefined>"
\* An optional value: <<>> (null) or <<v>>.
Null == <<>>
Some(v) == <<v>>

Wallets == {"GW1", "GW2"}
\* The wallet address strings a request can carry ("BAD": not an address).
\* An account with more payments than a scan counts.
Whales == {"GW3"}
Addresses == Wallets \cup Whales \cup {"BAD"}
Users == {"u1"}

\* String.prototype.trim on the strings of the model.
trim(s) == IF s = " " THEN "" ELSE s

\* !x for a string-or-undefined x: undefined and "" are falsy.
Falsy(s) == s = Undefined \/ s = ""

\* /^G[A-Z2-7]{55}$/.test(address): the addresses of Wallets stand for the
\* 56-character strings of that grammar, every other string for one outside it.
isValidPiWalletAddress(address) == address \in Wallets \cup Whales

\* new URL(url) parses and the protocol is http: or https:.
isValidWebhookUrl(url) == url \in {"https://hook", "http://hook"}

\* The payment history of each account on the ledger, as the counters a full
\* scan of it gives (credited: the payments whose receiver is the account).
Ledger(w) ==
  IF w = "GW1" THEN [total |-> 150, unique |-> 25, credited |-> 0]
  ELSE IF w = "GW3" THEN [total |-> 10200, unique |-> 204, credited |-> 10200]
  ELSE [total |-> 99, unique |-> 10, credited |-> 99]

\* const limit = 200, and the count at which pagination stops.
limit == 200
TransactionLimit == 10000

\* A record of the payments endpoint: its type and, for payments, the two
\* accounts (Undefined: the field is absent).
Operation(type, from, to) == [type |-> type, from |-> from, to |-> to]

\* The account of another party, by number.
Party(i) == "GC" \o ToString(i)

\* The pages of limit records the ledger holds for an account, newest first.
\* GW1: 100 payments to 15 accounts among other operations, then 50 payments
\* to 15 accounts, 5 of them on the first page.  GW2: 99 payments received,
\* one of them from itself and one with no sender, from 10 accounts among
\* other operations, in one full page.  GW3: 51 full pages of payments
\* received, from 4 more accounts on each page.  They add up to Ledger(w).
Pages(w) ==
  IF w = "GW1"
    THEN <<[i \in 1..200 |-> IF i <= 100 THEN Operation("payment", w, Party(11 + (i % 15)))
                                          ELSE Operation("create_account", Undefined, Undefined)],
           [i \in 1..50 |-> Operation("path_payment_strict_send", w, Party(21 + (i % 15)))]>>
  ELSE IF w = "GW3"
    THEN [n \in 1..51 |->
            [i \in 1..200 |-> Operation("payment", Party(11 + 4 * (n - 1) + (i % 4)), w)]]
  ELSE <<[i \in 1..200 |->
            IF i <= 97 THEN Operation("payment", Party(11 + (i % 10)), w)
            ELSE IF i = 98 THEN Operation("payment", w, w)
            ELSE IF i = 99 THEN Operation("path_payment", Undefined, w)
            ELSE Operation("account_merge", Undefined, Undefined)]>>

\* The records a page request with the cursor after n - 1 pages gets: past
\* the last page, none.
PageOf(w, n) == IF n <= Len(Pages(w)) THEN Pages(w)[n] ELSE <<>>

\* The types the scan counts.
PaymentTypes ==
  {"payment", "path_payment", "path_payment_strict_send", "path_payment_strict_receive"}

\* payment.from === walletAddress ? payment.to : payment.from
Counterparty(payment, walletAddress) ==
  IF payment.from = walletAddress THEN payment.to ELSE payment.from

\* totalTransactions and uniqueWallets of fetchAccountPayments before its
\* first page (unique: uniqueWallets.size).
NoCounters == [total |-> 0, unique |-> 0, wallets |-> {}]

\* The for loop over the records of a page.
CountPage(records, walletAddress, counted) ==
  LET payments == {i \in 1..Len(records) : records[i].type \in PaymentTypes}
      counterparties ==
        {Counterparty(records[i], walletAddress) : i \in payments} \ {Undefined, "", walletAddress}
      wallets == counted.wallets \cup counterparties
  IN  [total |-> counted.total + Cardinality(payments),
       unique |-> Cardinality(wallets), wallets |-> wallets]

\* ----------------------------------------------------- check_rate_limit
\* SELECT * INTO v_record FROM verification_rate_limits WHERE wallet_address = w
RateRows(w) == {b \in rate_limits : b.wallet_address = w}

\* v_record.window_start < now() - p_window_hours hours
WindowExpired(window_start, t) == window_start < t - p_window_hours * Hour

LimitReached_Late(request_count) == request_count > p_max_requests

\* v_record.request_count >= p_max_requests
LimitReached(request_count) == request_count >= p_max_requests

\* The branch of the IF chain that the snapshot read by the SELECT selects
\* (snap: Null when no row was FOUND).
RateBranch(snap, t) ==
  IF snap = Null THEN "insert"
  ELSE IF WindowExpired(snap[1].window_start, t) THEN "reset"
  ELSE IF LimitReached(snap[1].request_count) THEN "refuse"
  ELSE "incr"

\* reset_at = v_record.window_start + p_window_hours hours
ResetAt(window_start) == window_start + p_window_hours * Hour

\* What supabase.rpc('check_rate_limit') gives: the row of RETURN QUERY, or
\* the error of the call ("": none).
RateResult(err, allowed, count, reset) ==
  [error |-> err, allowed |-> allowed, current_count |-> count, reset_at |-> reset]

NoRateResult == RateResult("", TRUE, 0, 0)
Unavailable == "connection error"
DuplicateKey == "duplicate key value violates unique constraint"

\* The refusing branch: RETURN QUERY SELECT false, ... from the row read.
RateRefusal(snap) ==
  RateResult("", FALSE, snap[1].request_count, ResetAt(snap[1].window_start))

RateWrite_Sliding(w, branch, t) ==
  LET rows == RateRows(w) IN
  CASE branch = "insert" ->
         IF rows # {}
           THEN [table |-> rate_limits, result |-> RateResult(DuplicateKey, FALSE, 0, 0)]
           ELSE [table |-> rate_limits \cup
                             {[wallet_address |-> w, request_count |-> 1, window_start |-> t]},
                 result |-> RateResult("", TRUE, 1, ResetAt(t))]
    [] branch = "reset" ->
         [table |-> (rate_limits \ rows) \cup
                     {[b EXCEPT !.request_count = 1, !.window_start = t] : b \in rows},
          result |-> RateResult("", TRUE, 1, ResetAt(t))]
    [] OTHER ->
         LET v == CHOOSE b \in rows : TRUE IN
         [table |-> (rate_limits \ rows) \cup
                     {[b EXCEPT !.request_count = b.request_count + 1, !.window_start = t] :
                        b \in rows},
          result |-> RateResult("", TRUE, v.request_count + 1, ResetAt(t))]

\* The INSERT or UPDATE of the selected branch, run on the table as it is by
\* then, and the result returned from the row it RETURNs INTO v_record.  t is
\* now() of the calling transaction.
RateWrite(w, branch, t) ==
  LET rows == RateRows(w) IN
  CASE branch = "insert" ->
         IF rows # {}
           THEN \* UNIQUE (wallet_address): another transaction inserted first
                [table |-> rate_limits, result |-> RateResult(DuplicateKey, FALSE, 0, 0)]
           ELSE [table |-> rate_limits \cup
                             {[wallet_address |-> w, request_count |-> 1, window_start |-> t]},
                 result |-> RateResult("", TRUE, 1, ResetAt(t))]
    [] branch = "reset" ->
         [table |-> (rate_limits \ rows) \cup
                     {[b EXCEPT !.request_count = 1, !.window_start = t] : b \in rows},
          result |-> RateResult("", TRUE, 1, ResetAt(t))]
    [] OTHER ->
         LET v == CHOOSE b \in rows : TRUE IN
         [table |-> (rate_limits \ rows) \cup
                     {[b EXCEPT !.request_count = b.request_count + 1] : b \in rows},
          result |-> RateResult("", TRUE, v.request_count + 1, ResetAt(v.window_start))]

\* History of the checks on an address: the time of its first check, and how
\* many checks were made, and how many allowed, less than a window after it.
NotSeen == [first |-> Null, checks |-> 0, allowed |-> 0]

Record(w, t, result) ==
  LET h == seen[w] IN
  IF result.error # "" THEN seen
  ELSE IF h.first = Null
    THEN [seen EXCEPT ![w] = [first |-> Some(t), checks |-> 1,
                              allowed |-> IF result.allowed THEN 1 ELSE 0]]
  ELSE IF t - h.first[1] < p_window_hours * Hour
    THEN [seen EXCEPT ![w] = [h EXCEPT !.checks = @ + 1,
                                       !.allowed = IF result.allowed THEN @ + 1 ELSE @]]
  ELSE seen

\* ------------------------------------------- user_subscriptions functions
SubRows(u) == {s \in subscriptions : s.external_user_id = u}

\* check_verification_allowance(p_external_user_id): the table it leaves and
\* the row (allowed, remaining, tier) it returns.
check_verification_allowance(u, t) ==
  LET created == IF SubRows(u) = {}
                   THEN subscriptions \cup
                          {[external_user_id |-> u, tier |-> "enterprise",
                            verifications_limit |-> 999999, verifications_used |-> 0,
                            expires_at |-> Null]}
                   ELSE subscriptions
      s0 == CHOOSE s \in created : s.external_user_id = u
      expired == s0.expires_at # Null /\ s0.expires_at[1] < t
      s1 == IF expired
              THEN [s0 EXCEPT !.tier = "enterprise", !.verifications_limit = 999999,
                              !.verifications_used = 0, !.expires_at = Null]
              ELSE s0
      table == (created \ {s0}) \cup {s1}
  IN  IF s1.tier = "enterprise"
        THEN [table |-> table, allowed |-> TRUE, remaining |-> 999999, tier |-> s1.tier]
      ELSE IF s1.verifications_used >= s1.verifications_limit
        THEN [table |-> table, allowed |-> FALSE, remaining |-> 0, tier |-> s1.tier]
      ELSE [table |-> table, allowed |-> TRUE,
            remaining |-> s1.verifications_limit - s1.verifications_used, tier |-> s1.tier]

increment_verification_usage_Twice(u) ==
  {IF s.external_user_id = u
     THEN [s EXCEPT !.verifications_used = s.verifications_used + 2]
     ELSE s : s \in subscriptions}

\* increment_verification_usage(p_external_user_id)
increment_verification_usage(u) ==
  {IF s.external_user_id = u
     THEN [s EXCEPT !.verifications_used = s.verifications_used + 1]
     ELSE s : s \in subscriptions}

\* ------------------------------------------------------- decision (single)
Str(n) == ToString(n)

\* verify-business: the threshold rule and the failure reason.
MeetsRequirements(totalTransactions, uniqueWallets, minT, minU) ==
  totalTransactions >= minT /\ uniqueWallets >= minU

FailureReason(totalTransactions, uniqueWallets, minT, minU) ==
  IF MeetsRequirements(totalTransactions, uniqueWallets, minT, minU) THEN Null
  ELSE IF totalTransactions < minT /\ uniqueWallets < minU
    THEN <<"Insufficient transactions (", Str(totalTransactions), "/", Str(minT),
           ") and unique wallets (", Str(uniqueWallets), "/", Str(minU), ")">>
  ELSE IF totalTransactions < minT
    THEN <<"Insufficient transactions (", Str(totalTransactions), "/", Str(minT), ")">>
  ELSE <<"Insufficient unique wallets (", Str(uniqueWallets), "/", Str(minU), ")">>

VerificationStatus_Review(meets) == IF meets THEN "approved" ELSE "under_review"

\* meetsRequirements ? 'approved' : 'rejected'
VerificationStatus(meets) == IF meets THEN "approved" ELSE "rejected"

\* minTransactions ?? DEFAULT_MIN_TRANSACTIONS
Effective(supplied, default) == IF supplied = Null THEN default ELSE supplied[1]

\* ------------------------------------------------- verify-business: values
\* The request: the credential it carries and the fields of its JSON body.
SingleInput(cred, w, name, user, force, url, secret, minT, minU, minC) ==
  [cred |-> cred, walletAddress |-> w, businessName |-> name, externalUserId |-> user,
   forceRefresh |-> force, webhookUrl |-> url, webhookSecret |-> secret,
   minTransactions |-> minT, minUniqueWallets |-> minU, minCreditedTransactions |-> minC]

NoInput ==
  SingleInput("none", Undefined, Undefined, Undefined, FALSE, Undefined, Undefined, Null, Null, Null)

\* A row of business_verifications (id 0: not stored yet).
NoRow ==
  [id |-> 0, wallet_address |-> "", business_name |-> "", external_user_id |-> "",
   total_transactions |-> 0, unique_wallets |-> 0, meets_requirements |-> FALSE,
   failure_reason |-> Null, verification_status |-> "", updated_at |-> 0]

\* The data object of a response body, from a stored row.
ResponseData(row) ==
  [verificationId |-> row.id, walletAddress |-> row.wallet_address,
   businessName |-> row.business_name, totalTransactions |-> row.total_transactions,
   uniqueWallets |-> row.unique_wallets, meetsRequirements |-> row.meets_requirements,
   failureReason |-> row.failure_reason, verificationStatus |-> row.verification_status,
   verifiedAt |-> row.updated_at]

\* A response: status 0 stands for no response yet; absent fields are Null,
\* absent headers "".
NoResp ==
  [status |-> 0, success |-> FALSE, cached |-> Null, cacheExpiresAt |-> Null,
   webhookQueued |-> Null, data |-> Null, error |-> Null,
   XCache |-> "", XCacheExpires |-> Null,
   XRateLimitLimit |-> "", XRateLimitRemaining |-> "", XRateLimitReset |-> Null]

ErrorResp(status, message) ==
  [NoResp EXCEPT !.status = status, !.success = FALSE, !.error = message]

RateLimitedResp(resetAt) ==
  [ErrorResp(429, <<"Rate limit exceeded",
                    ". Maximum 5 verification requests per hour per wallet. Try again after ",
                    Str(resetAt)>>)
     EXCEPT !.XRateLimitLimit = "5", !.XRateLimitRemaining = "0",
            !.XRateLimitReset = Some(resetAt)]

\* cacheExpiresAt = updated_at + CACHE_DURATION_MS
CacheExpiresAt(updated_at) == updated_at + CACHE_DURATION_MS

CacheFresh_Inclusive(updated_at, t) == t - updated_at <= CACHE_DURATION_MS

\* cacheAge < CACHE_DURATION_MS, with cacheAge = Date.now() - updated_at
CacheFresh(updated_at, t) == t - updated_at < CACHE_DURATION_MS

CacheHitResp_Rescanned(row) ==
  [NoResp EXCEPT !.status = 200, !.success = TRUE, !.cached = Some(FALSE),
                 !.cacheExpiresAt = Some(now + CACHE_DURATION_MS),
                 !.data = Some(ResponseData(row)),
                 !.XCache = "MISS", !.XCacheExpires = Some(now + CACHE_DURATION_MS)]

CacheHitResp_Queued(row) ==
  [NoResp EXCEPT !.status = 200, !.success = TRUE, !.cached = Some(TRUE),
                 !.cacheExpiresAt = Some(CacheExpiresAt(row.updated_at)),
                 !.data = Some(ResponseData(row)), !.webhookQueued = Some(TRUE),
                 !.XCache = "HIT", !.XCacheExpires = Some(CacheExpiresAt(row.updated_at))]

CacheHitResp(row) ==
  [NoResp EXCEPT !.status = 200, !.success = TRUE, !.cached = Some(TRUE),
                 !.cacheExpiresAt = Some(CacheExpiresAt(row.updated_at)),
                 !.data = Some(ResponseData(row)),
                 !.XCache = "HIT", !.XCacheExpires = Some(CacheExpiresAt(row.updated_at))]

FreshResp_Unstored(row, t, webhookQueued) ==
  [NoResp EXCEPT !.status = 200, !.success = TRUE, !.cached = Some(FALSE),
                 !.cacheExpiresAt = Some(t + CACHE_DURATION_MS),
                 !.webhookQueued = Some(webhookQueued),
                 !.data = Some(ResponseData([row EXCEPT !.id = 0])),
                 !.XCache = "MISS", !.XCacheExpires = Some(t + CACHE_DURATION_MS)]

\* The response to a fresh verification, from the row the upsert returned.
FreshResp(row, t, webhookQueued) ==
  [NoResp EXCEPT !.status = 200, !.success = TRUE, !.cached = Some(FALSE),
                 !.cacheExpiresAt = Some(t + CACHE_DURATION_MS),
                 !.webhookQueued = Some(webhookQueued),
                 !.data = Some(ResponseData(row)),
                 !.XCache = "MISS", !.XCacheExpires = Some(t + CACHE_DURATION_MS)]

\* A request slot.  page, counted: the pages fetchAccountPayments has read
\* and what it has counted in them.  effects: what the request has done so far to the world
\* ("rate_limit", "cache_read", "ledger", "upsert", "usage", "webhook").
IdleReq ==
  [pc |-> "idle", id |-> 0, in |-> NoInput, t |-> 0, branch |-> "",
   rl |-> NoRateResult, lookup |-> Null, row |-> NoRow, resp |-> NoResp, effects |-> {},
   page |-> 0, counted |-> NoCounters]

\* The handler returns: its locals are gone, the response stays.
Finish(q, resp) ==
  [q EXCEPT !.pc = "done", !.resp = resp, !.t = 0, !.branch = "", !.row = NoRow,
            !.page = 0, !.counted = NoCounters]

\* ---------------------------------------------- verify-business: handler
\* isValidApiKey || isInternalCall
Authorized(cred) == cred \in {"apikey", "internal"}

\* walletAddress && walletAddress.trim().length > 0
RateLimited(w) == ~Falsy(w) /\ trim(w) # ""

\* From the address check to the cache read: the synchronous code that follows
\* the rate-limit step.
AfterRateLimit(q) ==
  LET i == q.in IN
  IF i.walletAddress = Undefined
    THEN \* walletAddress.trim() throws; the catch block answers
         Finish(q, ErrorResp(500, <<"Cannot read properties of undefined (reading 'trim')">>))
  ELSE IF ~isValidPiWalletAddress(trim(i.walletAddress))
    THEN Finish(q, ErrorResp(400, <<"Invalid Pi Network wallet address format",
            ". Must be a valid Stellar-compatible address starting with G.">>))
  ELSE IF Falsy(i.businessName) \/ trim(i.businessName) = ""
    THEN Finish(q, ErrorResp(400, <<"Business name is required">>))
  ELSE IF Falsy(i.externalUserId) \/ trim(i.externalUserId) = ""
    THEN Finish(q, ErrorResp(400, <<"External user ID is required">>))
  ELSE IF ~i.forceRefresh THEN [q EXCEPT !.pc = "cache"]
  ELSE [q EXCEPT !.pc = "scan"]

RateLimitRefuses_Never(result) == FALSE

\* The handler once check_rate_limit has answered: an error of the call is
\* logged and the request goes on; allowed = false is answered 429.
RateLimitRefuses(result) == result.error = "" /\ ~result.allowed

AfterRateCheck(q, result) ==
  LET q1 == [q EXCEPT !.rl = result, !.effects = @ \cup {"rate_limit"}] IN
  IF RateLimitRefuses(result)
    THEN Finish(q1, RateLimitedResp(result.reset_at))
    ELSE AfterRateLimit(q1)

\* From the start of the handler to its first await.
Admit(q) ==
  LET i == q.in IN
  IF ~Authorized(i.cred)
    THEN Finish(q, ErrorResp(401, <<"Unauthorized: Invalid or missing API key">>))
  ELSE IF ~Falsy(i.webhookUrl) /\ ~isValidWebhookUrl(i.webhookUrl)
    THEN Finish(q, ErrorResp(400, <<"Invalid webhook URL: must be a valid HTTP/HTTPS URL">>))
  ELSE IF RateLimited(i.walletAddress) THEN [q EXCEPT !.pc = "rl_select"]
  ELSE AfterRateLimit(q)

\* A request is received by the worker of a free slot.
Receive(r, budget, inputs) ==
  /\ req[r].pc \in {"idle", "done"}
  /\ arrivals < budget
  /\ \E i \in inputs :
       req' = [req EXCEPT ![r] = Admit([IdleReq EXCEPT !.id = arrivals + 1, !.in = i])]
  /\ arrivals' = arrivals + 1
  /\ UNCHANGED <<now, rate_limits, verifications, subscriptions, nextId, hooks, seen, batch, ent>>

\* A request arrives: it is received in the lowest free slot.
Arrive(r, budget, inputs) ==
  /\ \A r2 \in DOMAIN req : r2 < r => req[r2].pc \notin {"idle", "done"}
  /\ Receive(r, budget, inputs)

\* The row the SELECT of check_rate_limit reads.
Snapshot(w) == IF RateRows(w) = {} THEN Null ELSE Some(CHOOSE b \in RateRows(w) : TRUE)

\* check_rate_limit: the call fails, or its SELECT runs; the refusing branch
\* writes nothing and returns at once.
RateLimitSelect(r) ==
  /\ req[r].pc = "rl_select"
  /\ \E fail \in BOOLEAN :
       LET q == req[r]
           w == trim(q.in.walletAddress)
           snap == Snapshot(w)
           branch == RateBranch(snap, now)
       IN  IF fail
             THEN /\ req' = [req EXCEPT ![r] =
                               AfterRateCheck(q, RateResult(Unavailable, FALSE, 0, 0))]
                  /\ seen' = seen
           ELSE IF branch = "refuse"
             THEN /\ req' = [req EXCEPT ![r] = AfterRateCheck(q, RateRefusal(snap))]
                  /\ seen' = Record(w, now, RateRefusal(snap))
           ELSE /\ req' = [req EXCEPT ![r] = [q EXCEPT !.pc = "rl_write", !.branch = branch,
                                                        !.t = now]]
                /\ seen' = seen
  /\ UNCHANGED <<now, rate_limits, verifications, subscriptions, nextId, arrivals, hooks, batch, ent>>

\* check_rate_limit: the INSERT or UPDATE of the selected branch, and the
\* handler's reaction to the result.
RateLimitWrite(r) ==
  /\ req[r].pc = "rl_write"
  /\ LET q == req[r]
         w == trim(q.in.walletAddress)
         o == RateWrite(w, q.branch, q.t)
     IN  /\ rate_limits' = o.table
         /\ req' = [req EXCEPT ![r] = AfterRateCheck(q, o.result)]
         /\ seen' = Record(w, q.t, o.result)
  /\ UNCHANGED <<now, verifications, subscriptions, nextId, arrivals, hooks, batch, ent>>

\* The record the cache lookup returns (maybeSingle).
CachedRows(w) == {v \in verifications : v.wallet_address = w}

\* The row handed to the upsert, from the counters of the scan.
UpsertRow(i, totalTransactions, uniqueWallets, t) ==
  LET minT == Effective(i.minTransactions, DEFAULT_MIN_TRANSACTIONS)
      minU == Effective(i.minUniqueWallets, DEFAULT_MIN_UNIQUE_WALLETS)
      meets == MeetsRequirements(totalTransactions, uniqueWallets, minT, minU)
  IN  [NoRow EXCEPT !.wallet_address = trim(i.walletAddress),
                    !.business_name = trim(i.businessName),
                    !.external_user_id = trim(i.externalUserId),
                    !.total_transactions = totalTransactions,
                    !.unique_wallets = uniqueWallets,
                    !.meets_requirements = meets,
                    !.failure_reason = FailureReason(totalTransactions, uniqueWallets, minT, minU),
                    !.verification_status = VerificationStatus(meets),
                    !.updated_at = t]

CacheRead_Redecided(r) ==
  /\ req[r].pc = "cache"
  /\ LET q == req[r]
         rows == CachedRows(trim(q.in.walletAddress))
         q1 == [q EXCEPT !.effects = @ \cup {"cache_read"},
                         !.lookup = IF rows = {} THEN Null ELSE Some(CHOOSE v \in rows : TRUE)]
     IN  req' = [req EXCEPT ![r] =
                   IF q1.lookup # Null /\ CacheFresh(q1.lookup[1].updated_at, now)
                     THEN Finish(q1, CacheHitResp(
                            [UpsertRow(q.in, q1.lookup[1].total_transactions,
                                       q1.lookup[1].unique_wallets, q1.lookup[1].updated_at)
                               EXCEPT !.id = q1.lookup[1].id]))
                     ELSE [q1 EXCEPT !.pc = "scan"]]
  /\ UNCHANGED <<now, rate_limits, verifications, subscriptions, nextId, arrivals, hooks, seen, batch, ent>>

\* The cache read: a stored record younger than the cache duration answers
\* the request.
CacheRead(r) ==
  /\ req[r].pc = "cache"
  /\ LET q == req[r]
         rows == CachedRows(trim(q.in.walletAddress))
         q1 == [q EXCEPT !.effects = @ \cup {"cache_read"},
                         !.lookup = IF rows = {} THEN Null ELSE Some(CHOOSE v \in rows : TRUE)]
     IN  req' = [req EXCEPT ![r] =
                   IF q1.lookup # Null /\ CacheFresh(q1.lookup[1].updated_at, now)
                     THEN Finish(q1, CacheHitResp(q1.lookup[1]))
                     ELSE [q1 EXCEPT !.pc = "scan"]]
  /\ UNCHANGED <<now, rate_limits, verifications, subscriptions, nextId, arrivals, hooks, seen, batch, ent>>

\* What the ledger answers to a scan.
ScanOutcomes == {"ok", "404", "error", "timeout"}

Scan_StoresFailure(r) ==
  /\ req[r].pc = "scan"
  /\ \E outcome \in ScanOutcomes :
       LET q == [req[r] EXCEPT !.effects = @ \cup {"ledger"}]
           c == Ledger(trim(q.in.walletAddress))
       IN  /\ req' = [req EXCEPT ![r] =
                 CASE outcome = "error" ->
                        Finish(q, ErrorResp(500, <<"Pi Network API error: ", "500">>))
                   [] outcome = "timeout" ->
                        Finish(q, ErrorResp(500, <<"Pi Network API request timed out">>))
                   [] outcome = "404" ->
                        [q EXCEPT !.pc = "upsert", !.row = UpsertRow(q.in, 0, 0, now)]
                   [] OTHER ->
                        [q EXCEPT !.pc = "upsert", !.row = UpsertRow(q.in, c.total, c.unique, now)]]
           /\ verifications' =
                 IF outcome \in {"error", "timeout"}
                   THEN {v \in verifications : v.wallet_address # trim(q.in.walletAddress)}
                        \cup {[UpsertRow(q.in, 0, 0, now) EXCEPT !.id = nextId]}
                   ELSE verifications
  /\ UNCHANGED <<now, rate_limits, subscriptions, nextId, arrivals, hooks, seen, batch, ent>>

\* The ledger scan and the decision: a failed scan is answered by the catch
\* block, a successful one (404: no payments) goes on to the upsert.
Scan(r) ==
  /\ req[r].pc = "scan"
  /\ \E outcome \in ScanOutcomes :
       LET q == [req[r] EXCEPT !.effects = @ \cup {"ledger"}]
           c == Ledger(trim(q.in.walletAddress))
       IN  req' = [req EXCEPT ![r] =
             CASE outcome = "error" ->
                    Finish(q, ErrorResp(500, <<"Pi Network API error: ", "500">>))
               [] outcome = "timeout" ->
                    Finish(q, ErrorResp(500, <<"Pi Network API request timed out">>))
               [] outcome = "404" ->
                    [q EXCEPT !.pc = "upsert", !.row = UpsertRow(q.in, 0, 0, now)]
               [] OTHER ->
                    [q EXCEPT !.pc = "upsert", !.row = UpsertRow(q.in, c.total, c.unique, now)]]
  /\ UNCHANGED <<now, rate_limits, verifications, subscriptions, nextId, arrivals, hooks, seen, batch, ent>>

FetchPage_LostCursor(r) ==
  /\ req[r].pc = "scan"
  /\ \E outcome \in ScanOutcomes :
       LET q == [req[r] EXCEPT !.effects = @ \cup {"ledger"}]
           w == trim(q.in.walletAddress)
           records == PageOf(w, q.page + 1)
           counted == CountPage(records, w, q.counted)
       IN  req' = [req EXCEPT ![r] =
             CASE outcome = "error" -> Finish(q, ErrorResp(500, <<"Pi Network API error: ", "500">>))
               [] outcome = "timeout" -> Finish(q, ErrorResp(500, <<"Pi Network API request timed out">>))
               [] outcome = "404" -> [q EXCEPT !.pc = "upsert", !.row = UpsertRow(q.in, 0, 0, now)]
               [] OTHER ->
                    IF Len(records) = 0
                      THEN [q EXCEPT !.pc = "upsert",
                                     !.row = UpsertRow(q.in, q.counted.total, q.counted.unique, now)]
                    ELSE IF counted.total >= TransactionLimit \/ Len(records) < limit
                      THEN [q EXCEPT !.pc = "upsert", !.page = @ + 1, !.counted = counted,
                                     !.row = UpsertRow(q.in, counted.total, counted.unique, now)]
                    ELSE [q EXCEPT !.page = 0, !.counted = counted]]
  /\ UNCHANGED <<now, rate_limits, verifications, subscriptions, nextId, arrivals, hooks, seen, batch, ent>>

\* One iteration of the loop of fetchAccountPayments: the page request fails,
\* times out, is answered 404, or brings a page that is counted; after the
\* last iteration verifyWalletOnPiNetwork returns and the decision is taken.
FetchPage(r) ==
  /\ req[r].pc = "scan"
  /\ \E outcome \in ScanOutcomes :
       LET q == [req[r] EXCEPT !.effects = @ \cup {"ledger"}]
           w == trim(q.in.walletAddress)
           records == PageOf(w, q.page + 1)
           counted == CountPage(records, w, q.counted)
       IN  req' = [req EXCEPT ![r] =
             CASE outcome = "error" ->
                    Finish(q, ErrorResp(500, <<"Pi Network API error: ", "500">>))
               [] outcome = "timeout" ->
                    Finish(q, ErrorResp(500, <<"Pi Network API request timed out">>))
               [] outcome = "404" ->
                    [q EXCEPT !.pc = "upsert", !.row = UpsertRow(q.in, 0, 0, now)]
               [] OTHER ->
                    IF Len(records) = 0
                      THEN [q EXCEPT !.pc = "upsert",
                                     !.row = UpsertRow(q.in, q.counted.total, q.counted.unique, now)]
                    ELSE IF counted.total >= TransactionLimit \/ Len(records) < limit
                      THEN [q EXCEPT !.pc = "upsert", !.page = @ + 1, !.counted = counted,
                                     !.row = UpsertRow(q.in, counted.total, counted.unique, now)]
                    ELSE [q EXCEPT !.page = @ + 1, !.counted = counted]]
  /\ UNCHANGED <<now, rate_limits, verifications, subscriptions, nextId, arrivals, hooks, seen, batch, ent>>

UpsertVerification_Insert(row) ==
  [table |-> verifications \cup {[row EXCEPT !.id = nextId]},
   stored |-> [row EXCEPT !.id = nextId], nextId |-> nextId + 1]

\* upsert(..., onConflict: wallet_address).select().single(): the table after
\* it and the stored row.
UpsertVerification(row) ==
  LET old == CachedRows(row.wallet_address) IN
  IF old = {}
    THEN [table |-> verifications \cup {[row EXCEPT !.id = nextId]},
          stored |-> [row EXCEPT !.id = nextId], nextId |-> nextId + 1]
    ELSE LET stored == [row EXCEPT !.id = (CHOOSE v \in old : TRUE).id] IN
         [table |-> (verifications \ old) \cup {stored}, stored |-> stored, nextId |-> nextId]

\* The upsert answers: an error is answered 500, else the usage increment
\* is called.
Upsert(r) ==
  /\ req[r].pc = "upsert"
  /\ \E fail \in BOOLEAN :
       LET q == req[r]
           o == UpsertVerification(q.row)
       IN  IF fail
             THEN /\ req' = [req EXCEPT ![r] =
                       Finish(q, ErrorResp(500, <<"Failed to save verification data">>))]
                  /\ UNCHANGED <<verifications, nextId>>
             ELSE /\ verifications' = o.table
                  /\ nextId' = o.nextId
                  /\ req' = [req EXCEPT ![r] =
                       [q EXCEPT !.pc = "usage", !.row = o.stored,
                                 !.effects = @ \cup {"upsert"}]]
  /\ UNCHANGED <<now, rate_limits, subscriptions, arrivals, hooks, seen, batch, ent>>

\* The runtime: no EdgeRuntime.waitUntil, one that returns undefined, one
\* that returns a value.
Runtimes == {"none", "void", "value"}

\* EdgeRuntime?.waitUntil?.(send(...)) ?? send(...): how many times
\* sendWebhookNotification is called.
SequencesStarted(runtime) == IF runtime = "void" THEN 2 ELSE 1

\* A call of sendWebhookNotification: the request that made it, the event and
\* data of its payload, whether a webhookSecret was passed, the attempts
\* completed and the outcome of the last one, and of the iteration of its loop
\* that ran last: the timeout awaited before it, the string that was signed
\* and the body that was sent.
NewHook(owner, event, data, secret) ==
  [owner |-> owner, event |-> event, data |-> data, secret |-> secret,
   attempt |-> 0, status |-> "pending", last |-> "", delay |-> 0,
   signed |-> Null, sent |-> Null]

\* The data object of the verification.completed payload.
WebhookData(row) ==
  [verificationId |-> row.id, walletAddress |-> row.wallet_address,
   businessName |-> row.business_name, externalUserId |-> row.external_user_id,
   totalTransactions |-> row.total_transactions, uniqueWallets |-> row.unique_wallets,
   meetsRequirements |-> row.meets_requirements, failureReason |-> row.failure_reason,
   verificationStatus |-> row.verification_status, verifiedAt |-> row.updated_at]

QueueWebhook_Awaited(owner, event, data, secret, runtime) ==
  hooks \o <<[NewHook(owner, event, data, secret) EXCEPT !.attempt = 1, !.status = "succeeded"]>>

\* The sequences started are left running: nothing awaits them.
QueueWebhook(owner, event, data, secret, runtime) ==
  hooks \o [k \in 1..SequencesStarted(runtime) |-> NewHook(owner, event, data, secret)]

\* increment_verification_usage answers (its error is only logged); the
\* webhook is queued and the response returned.
Respond(r) ==
  /\ req[r].pc = "usage"
  /\ \E fail \in BOOLEAN, runtime \in Runtimes :
       LET q == req[r]
           queued == ~Falsy(q.in.webhookUrl)
       IN  /\ subscriptions' = IF fail THEN subscriptions
                               ELSE increment_verification_usage(trim(q.in.externalUserId))
           /\ hooks' = IF queued
                         THEN QueueWebhook(q.id, "verification.completed", WebhookData(q.row),
                                           ~Falsy(q.in.webhookSecret), runtime)
                         ELSE hooks
           /\ req' = [req EXCEPT ![r] =
                Finish([q EXCEPT !.effects = @ \cup {"usage"} \cup
                                     (IF queued THEN {"webhook"} ELSE {})],
                       FreshResp(q.row, now, queued))]
  /\ UNCHANGED <<now, rate_limits, verifications, nextId, arrivals, seen, batch, ent>>

\* ------------------------------------------------ sendWebhookNotification
maxRetries == 3

\* The timeout, in milliseconds, awaited before each attempt.
retryDelays == <<0, 1000, 5000>>

\* What one POST to the webhook target ends with: a response of a status
\* class ("4xx": other than 429), a rejected fetch, or the abort after 10 s.
AttemptOutcomes == {"2xx", "4xx", "429", "5xx", "network", "timeout"}

\* JSON.stringify(payload) at this moment.  The payload of the single handler
\* is a fresh object; that of the batch handler holds the results array of
\* processWithConcurrency itself, to which calls still running push.
Serialize(h) ==
  [event |-> h.event, data |-> h.data,
   results |-> IF h.event = "batch.verification.completed" THEN batch.results ELSE <<>>]

AfterAttempt_RetryAll(h, outcome) ==
  LET n == h.attempt + 1 IN
  [h EXCEPT !.attempt = n, !.last = outcome, !.delay = retryDelays[n],
            !.sent = Some(Serialize(h)),
            !.status = IF outcome = "2xx" THEN "succeeded"
                       ELSE IF n >= maxRetries THEN "exhausted"
                       ELSE "pending"]

AfterAttempt_Unbounded(h, outcome) ==
  LET n == IF h.attempt < maxRetries THEN h.attempt + 1 ELSE maxRetries IN
  [h EXCEPT !.attempt = n, !.last = outcome, !.delay = retryDelays[n],
            !.sent = Some(Serialize(h)),
            !.status = IF outcome = "2xx" THEN "succeeded"
                       ELSE IF outcome = "4xx" THEN "failed"
                       ELSE "pending"]

\* The call after the POST of its next attempt ended with outcome: response.ok
\* returns, a 4xx other than 429 returns, anything else goes round the loop.
AfterAttempt(h, outcome) ==
  LET n == h.attempt + 1 IN
  [h EXCEPT !.attempt = n, !.last = outcome, !.delay = retryDelays[n],
            !.sent = Some(Serialize(h)),
            !.status = IF outcome = "2xx" THEN "succeeded"
                       ELSE IF outcome = "4xx" THEN "failed"
                       ELSE IF n >= maxRetries THEN "exhausted"
                       ELSE "pending"]

\* An iteration of a call with a secret, up to the fetch: the timeout, then
\* importKey and sign over JSON.stringify(payload).
WebhookSign(k) ==
  /\ hooks[k].status = "pending"
  /\ hooks[k].secret
  /\ hooks[k].signed = Null \/ hooks[k].sent # Null
  /\ hooks' = [hooks EXCEPT ![k].delay = retryDelays[hooks[k].attempt + 1],
                            ![k].signed = Some(Serialize(hooks[k])),
                            ![k].sent = Null]
  /\ UNCHANGED <<now, rate_limits, verifications, subscriptions, nextId, arrivals, req, seen, batch, ent>>

\* The fetch of an iteration (the whole iteration when there is no secret)
\* and what follows its outcome, one of those the target can give.
WebhookAttempt(k, outcomes) ==
  /\ hooks[k].status = "pending"
  /\ hooks[k].secret => (hooks[k].signed # Null /\ hooks[k].sent = Null)
  /\ \E outcome \in outcomes :
       hooks' = [hooks EXCEPT ![k] = AfterAttempt(hooks[k], outcome)]
  /\ UNCHANGED <<now, rate_limits, verifications, subscriptions, nextId, arrivals, req, seen, batch, ent>>

\* ------------------------------------------- verify-business-batch: values
MAX_BATCH_SIZE == 10
CONCURRENCY_LIMIT == 3

\* An element of the verifications array.
Entry(w, name, user) == [walletAddress |-> w, businessName |-> name, externalUserId |-> user]

\* The request: its x-api-key credential and the fields of its JSON body.
BatchInput(cred, items, force, url, secret, minT, minU) ==
  [cred |-> cred, verifications |-> items, forceRefresh |-> force,
   webhookUrl |-> url, webhookSecret |-> secret,
   minTransactions |-> minT, minUniqueWallets |-> minU]

NoBatchInput == BatchInput("none", <<>>, FALSE, Undefined, Undefined, Null, Null)

\* A VerificationResult; entry: the position of the element it is the result of.
Result(k, e, success, cached, data, error) ==
  [entry |-> k, walletAddress |-> e.walletAddress, businessName |-> e.businessName,
   success |-> success, cached |-> cached, data |-> data, error |-> error]

NoResult == Result(0, Entry("", "", ""), FALSE, Null, Null, Null)

\* A failed result; its error message is a sequence of pieces.
Failure(k, e, message) == Result(k, e, FALSE, Null, Null, message)

\* The data object of a successful result, from a stored row.
ResultData(row) ==
  [verificationId |-> row.id, totalTransactions |-> row.total_transactions,
   uniqueWallets |-> row.unique_wallets, meetsRequirements |-> row.meets_requirements,
   failureReason |-> row.failure_reason, verificationStatus |-> row.verification_status,
   verifiedAt |-> row.updated_at]

\* reasons.join('; ')
BatchFailureReason(totalTransactions, uniqueWallets, minT, minU) ==
  LET tx == <<"Only ", Str(totalTransactions), " transactions (requires ", Str(minT), "+)">>
      uw == <<"Only ", Str(uniqueWallets), " unique wallets (requires ", Str(minU), "+)">>
  IN  IF MeetsRequirements(totalTransactions, uniqueWallets, minT, minU) THEN Null
      ELSE IF totalTransactions < minT /\ uniqueWallets < minU THEN tx \o <<"; ">> \o uw
      ELSE IF totalTransactions < minT THEN tx
      ELSE uw

\* The row processVerification hands to the upsert.
BatchUpsertRow(i, e, totalTransactions, uniqueWallets, t) ==
  LET minT == Effective(i.minTransactions, DEFAULT_MIN_TRANSACTIONS)
      minU == Effective(i.minUniqueWallets, DEFAULT_MIN_UNIQUE_WALLETS)
      meets == MeetsRequirements(totalTransactions, uniqueWallets, minT, minU)
  IN  [NoRow EXCEPT !.wallet_address = trim(e.walletAddress),
                    !.business_name = trim(e.businessName),
                    !.external_user_id = trim(e.externalUserId),
                    !.total_transactions = totalTransactions,
                    !.unique_wallets = uniqueWallets,
                    !.meets_requirements = meets,
                    !.failure_reason =
                       BatchFailureReason(totalTransactions, uniqueWallets, minT, minU),
                    !.verification_status = VerificationStatus(meets),
                    !.updated_at = t]

\* A call of processVerification.  pushed: its then-callback has run.
NewCall ==
  [pc |-> "new", t |-> 0, branch |-> "", rl |-> NoRateResult, row |-> NoRow,
   result |-> NoResult, pushed |-> FALSE, effects |-> {}, page |-> 0, counted |-> NoCounters]

\* The call returns.
Return(c, result) ==
  [c EXCEPT !.pc = "done", !.result = result, !.t = 0, !.branch = "", !.row = NoRow,
            !.page = 0, !.counted = NoCounters]

\* The response of the batch handler.
NoBatchResp ==
  [status |-> 0, success |-> FALSE, batchId |-> Null, totalRequested |-> 0,
   totalProcessed |-> 0, totalSuccessful |-> 0, totalFailed |-> 0, results |-> <<>>,
   webhookQueued |-> Null, error |-> Null]

BatchErrorResp(status, message) ==
  [NoBatchResp EXCEPT !.status = status, !.error = Some(message)]

\* The request being served: the loop of processWithConcurrency (next: the
\* element it starts next; executing, results: its arrays; p: the promise of
\* the element started last) and the runtime it runs on.
IdleBatch ==
  [pc |-> "idle", in |-> NoBatchInput, runtime |-> "none", next |-> 1, executing |-> <<>>,
   p |-> 0, results |-> <<>>, resp |-> NoBatchResp]

\* ----------------------------------------- verify-business-batch: handler
\* processVerification up to its first await: the address check.
StartCall(k, e) ==
  IF ~isValidPiWalletAddress(trim(e.walletAddress))
    THEN Return(NewCall, Failure(k, e, <<"Invalid Pi Network wallet address format">>))
    ELSE [NewCall EXCEPT !.pc = "rl_select"]

\* executing.splice(0, executing.findIndex(e => e === p) + 1)
Splice(executing, p) ==
  LET found == {i \in 1..Len(executing) : executing[i] = p}
      index == IF found = {} THEN 0 ELSE CHOOSE i \in found : \A j \in found : i <= j
  IN  SubSeq(executing, index + 1, Len(executing))

\* results.filter(r => r.success).length
Successful(results) == Cardinality({i \in 1..Len(results) : results[i].success})

\* The data of the batch.verification.completed payload, but for its results
\* array, which is the array the calls still push to.
BatchWebhookData(b) ==
  [batchId |-> "batch-1", totalRequested |-> Len(b.in.verifications),
   totalSuccessful |-> Successful(b.results),
   totalFailed |-> Len(b.results) - Successful(b.results)]

\* The handler once processWithConcurrency has returned its results array.
BatchRespond(b) ==
  [b EXCEPT !.pc = "done",
            !.resp = [NoBatchResp EXCEPT
                        !.status = 200, !.success = TRUE, !.batchId = Some("batch-1"),
                        !.totalRequested = Len(b.in.verifications),
                        !.totalProcessed = Len(b.results),
                        !.totalSuccessful = Successful(b.results),
                        !.totalFailed = Len(b.results) - Successful(b.results),
                        !.results = b.results,
                        !.webhookQueued = Some(~Falsy(b.in.webhookUrl))]]

\* One turn of the event loop from the point of view of processWithConcurrency:
\* the loop runs to its next await; then the then-callbacks of the calls that
\* have returned push their results, in the order the calls returned; a race
\* one of whose promises has resolved resumes the loop after the splice; a
\* Promise.all whose promises have all resolved returns the results.
RECURSIVE Advance(_, _)
Advance(b, e) ==
  LET n == Len(b.in.verifications)
      unpushed == {k \in DOMAIN e : k <= n /\ e[k].pc = "done" /\ ~e[k].pushed}
  IN
  IF b.pc = "loop" THEN
    IF b.next > n THEN Advance([b EXCEPT !.pc = "all"], e)
    ELSE LET k == b.next
             executing == Append(b.executing, k)
             b1 == [b EXCEPT !.next = k + 1, !.executing = executing, !.p = k]
             e1 == [e EXCEPT ![k] = StartCall(k, b.in.verifications[k])]
         IN  IF Len(executing) >= CONCURRENCY_LIMIT
               THEN Advance([b1 EXCEPT !.pc = "race"], e1)
               ELSE Advance(b1, e1)
  ELSE IF unpushed # {} THEN
    LET k == CHOOSE j \in unpushed : \A i \in unpushed : j <= i IN
    Advance([b EXCEPT !.results = Append(@, e[k].result)], [e EXCEPT ![k].pushed = TRUE])
  ELSE IF b.pc = "race" /\ \E i \in 1..Len(b.executing) : e[b.executing[i]].pushed THEN
    Advance([b EXCEPT !.pc = "loop", !.executing = Splice(b.executing, b.p)], e)
  ELSE IF b.pc = "all" /\ \A i \in 1..Len(b.executing) : e[b.executing[i]].pushed THEN
    [b |-> BatchRespond(b), e |-> e]
  ELSE [b |-> b, e |-> e]

\* The handler up to processWithConcurrency.
AdmitBatch(b) ==
  LET i == b.in
      n == Len(i.verifications)
  IN  IF i.cred # "apikey"
        THEN [b EXCEPT !.pc = "done",
                !.resp = BatchErrorResp(401, "Unauthorized: Invalid or missing API key")]
      ELSE IF n = 0
        THEN [b EXCEPT !.pc = "done",
                !.resp = BatchErrorResp(400, "verifications array is required and must not be empty")]
      ELSE IF n > MAX_BATCH_SIZE
        THEN [b EXCEPT !.pc = "done",
                !.resp = BatchErrorResp(400, "Maximum batch size is 10 verifications")]
      ELSE IF ~Falsy(i.webhookUrl) /\ ~isValidWebhookUrl(i.webhookUrl)
        THEN [b EXCEPT !.pc = "done", !.resp = BatchErrorResp(400, "Invalid webhook URL")]
      ELSE IF \E k \in 1..n : \/ Falsy(i.verifications[k].walletAddress)
                               \/ Falsy(i.verifications[k].businessName)
                               \/ Falsy(i.verifications[k].externalUserId)
        THEN [b EXCEPT !.pc = "done",
                !.resp = BatchErrorResp(400,
                  "Each verification requires walletAddress, businessName, and externalUserId")]
      ELSE [b EXCEPT !.pc = "loop"]

\* The state after a turn in which the calls became e: the loop advanced, and
\* the webhook queued if the handler answered in this turn.
Turn(b, e) ==
  LET o == Advance(b, e) IN
  /\ batch' = o.b
  /\ ent' = o.e
  /\ hooks' = IF b.pc # "done" /\ o.b.pc = "done" /\ o.b.resp.webhookQueued = Some(TRUE)
                THEN QueueWebhook(0, "batch.verification.completed", BatchWebhookData(o.b),
                                  ~Falsy(b.in.webhookSecret), b.runtime)
                ELSE hooks

\* A batch request arrives.
BatchArrive(inputs) ==
  /\ batch.pc = "idle"
  /\ \E i \in inputs, runtime \in Runtimes :
       Turn(AdmitBatch([IdleBatch EXCEPT !.in = i, !.runtime = runtime]), ent)
  /\ UNCHANGED <<now, rate_limits, verifications, subscriptions, nextId, arrivals, req, seen>>

\* The call once check_rate_limit has answered: an error of the call, or
\* allowed = false, ends it.
CallAfterRateCheck(k, c, result) ==
  LET e == batch.in.verifications[k]
      c1 == [c EXCEPT !.rl = result, !.effects = @ \cup {"rate_limit"}]
  IN  IF result.error # "" \/ ~result.allowed
        THEN Return(c1, Failure(k, e, <<"Rate limit exceeded for wallet ", e.walletAddress>>))
      ELSE IF ~batch.in.forceRefresh THEN [c1 EXCEPT !.pc = "cache"]
      ELSE [c1 EXCEPT !.pc = "scan"]

\* check_rate_limit for call k: the call fails, or its SELECT runs.
CallRateLimitSelect(k) ==
  /\ ent[k].pc = "rl_select"
  /\ \E fail \in BOOLEAN :
       LET c == ent[k]
           w == trim(batch.in.verifications[k].walletAddress)
           snap == Snapshot(w)
           branch == RateBranch(snap, now)
       IN  IF fail
             THEN /\ Turn(batch, [ent EXCEPT ![k] =
                          CallAfterRateCheck(k, c, RateResult(Unavailable, FALSE, 0, 0))])
                  /\ seen' = seen
           ELSE IF branch = "refuse"
             THEN /\ Turn(batch, [ent EXCEPT ![k] = CallAfterRateCheck(k, c, RateRefusal(snap))])
                  /\ seen' = Record(w, now, RateRefusal(snap))
           ELSE /\ Turn(batch, [ent EXCEPT ![k] = [c EXCEPT !.pc = "rl_write",
                                                            !.branch = branch, !.t = now]])
                /\ seen' = seen
  /\ UNCHANGED <<now, rate_limits, verifications, subscriptions, nextId, arrivals, req>>

\* check_rate_limit for call k: the INSERT or UPDATE of the selected branch.
CallRateLimitWrite(k) ==
  /\ ent[k].pc = "rl_write"
  /\ LET c == ent[k]
         w == trim(batch.in.verifications[k].walletAddress)
         o == RateWrite(w, c.branch, c.t)
     IN  /\ rate_limits' = o.table
         /\ seen' = Record(w, c.t, o.result)
         /\ Turn(batch, [ent EXCEPT ![k] = CallAfterRateCheck(k, c, o.result)])
  /\ UNCHANGED <<now, verifications, subscriptions, nextId, arrivals, req>>

\* The cache read of call k.
CallCacheRead(k) ==
  /\ ent[k].pc = "cache"
  /\ LET c == [ent[k] EXCEPT !.effects = @ \cup {"cache_read"}]
         e == batch.in.verifications[k]
         rows == CachedRows(trim(e.walletAddress))
         hit == \E v \in rows : CacheFresh(v.updated_at, now)
     IN  Turn(batch, [ent EXCEPT ![k] =
           IF hit
             THEN Return(c, Result(k, e, TRUE, Some(TRUE),
                                   Some(ResultData(CHOOSE v \in rows : TRUE)), Null))
             ELSE [c EXCEPT !.pc = "scan"]])
  /\ UNCHANGED <<now, rate_limits, verifications, subscriptions, nextId, arrivals, req, seen>>

\* The ledger scan and the decision of call k; an exception ends the call
\* with its message.
CallScan(k) ==
  /\ ent[k].pc = "scan"
  /\ \E outcome \in ScanOutcomes :
       LET c == [ent[k] EXCEPT !.effects = @ \cup {"ledger"}]
           e == batch.in.verifications[k]
           l == Ledger(trim(e.walletAddress))
       IN  Turn(batch, [ent EXCEPT ![k] =
             CASE outcome = "error" -> Return(c, Failure(k, e, <<"Pi Network API error: ", "500">>))
               [] outcome = "timeout" -> Return(c, Failure(k, e, <<"The signal has been aborted">>))
               [] outcome = "404" ->
                    [c EXCEPT !.pc = "upsert", !.row = BatchUpsertRow(batch.in, e, 0, 0, now)]
               [] OTHER ->
                    [c EXCEPT !.pc = "upsert",
                              !.row = BatchUpsertRow(batch.in, e, l.total, l.unique, now)]])
  /\ UNCHANGED <<now, rate_limits, verifications, subscriptions, nextId, arrivals, req, seen>>

\* data._links?.next?.href of page n, as a link with a cursor or none: the
\* ledger links the page that follows; on its last page it may link an empty
\* one or nothing.
NextLinks(w, n) == IF n < Len(Pages(w)) THEN {TRUE} ELSE BOOLEAN

\* One iteration of the loop of the batch function's fetchAccountPayments
\* for call k, and the decision after the last.
CallFetchPage(k) ==
  /\ ent[k].pc = "scan"
  /\ LET c == [ent[k] EXCEPT !.effects = @ \cup {"ledger"}]
         e == batch.in.verifications[k]
         w == trim(e.walletAddress)
         records == PageOf(w, c.page + 1)
         counted == CountPage(records, w, c.counted)
     IN  \E outcome \in ScanOutcomes, nextLink \in NextLinks(w, c.page + 1) :
           Turn(batch, [ent EXCEPT ![k] =
             CASE outcome = "error" -> Return(c, Failure(k, e, <<"Pi Network API error: ", "500">>))
               [] outcome = "timeout" -> Return(c, Failure(k, e, <<"The signal has been aborted">>))
               [] outcome = "404" ->
                    [c EXCEPT !.pc = "upsert", !.row = BatchUpsertRow(batch.in, e, 0, 0, now)]
               [] OTHER ->
                    IF Len(records) = 0
                      THEN [c EXCEPT !.pc = "upsert",
                                     !.row = BatchUpsertRow(batch.in, e, c.counted.total,
                                                            c.counted.unique, now)]
                    ELSE IF ~nextLink \/ Len(records) < limit
                      THEN [c EXCEPT !.pc = "upsert", !.page = @ + 1, !.counted = counted,
                                     !.row = BatchUpsertRow(batch.in, e, counted.total,
                                                            counted.unique, now)]
                    ELSE [c EXCEPT !.page = @ + 1, !.counted = counted]])
  /\ UNCHANGED <<now, rate_limits, verifications, subscriptions, nextId, arrivals, req, seen>>

\* The upsert of call k answers, and the call returns its result.
CallUpsert(k) ==
  /\ ent[k].pc = "upsert"
  /\ \E fail \in BOOLEAN :
       LET c == ent[k]
           e == batch.in.verifications[k]
           o == UpsertVerification(c.row)
       IN  IF fail
             THEN /\ Turn(batch, [ent EXCEPT ![k] =
                          Return(c, Failure(k, e, <<"Failed to save verification data">>))])
                  /\ UNCHANGED <<verifications, nextId>>
             ELSE /\ verifications' = o.table
                  /\ nextId' = o.nextId
                  /\ Turn(batch, [ent EXCEPT ![k] =
                          Return([c EXCEPT !.effects = @ \cup {"upsert"}],
                                 Result(k, e, TRUE, Some(FALSE), Some(ResultData(o.stored)),
                                        Null))])
  /\ UNCHANGED <<now, rate_limits, subscriptions, arrivals, req, seen>>

\* ------------------------------------------------------------ environment
Tick ==
  /\ now < MaxTime
  /\ now' = now + 1
  /\ UNCHANGED <<rate_limits, verifications, subscriptions, nextId, arrivals, req, hooks, seen, batch, ent>>

\* get-subscription-status: calls check_verification_allowance.
GetSubscriptionStatus(u) ==
  /\ subscriptions' = check_verification_allowance(u, now).table
  /\ subscriptions' # subscriptions
  /\ UNCHANGED <<now, rate_limits, verifications, nextId, arrivals, req, hooks, seen, batch, ent>>

\* complete-pi-payment for a "Basic Verification Plan" memo: the upsert of the
\* user's subscription.
CompletePayment(u) ==
  /\ LET s == [external_user_id |-> u, tier |-> "basic",
               verifications_limit |-> BasicLimit, verifications_used |-> 0,
               expires_at |-> Some(now + Month)]
     IN  subscriptions' = (subscriptions \ SubRows(u)) \cup {s}
  /\ subscriptions' # subscriptions
  /\ UNCHANGED <<now, rate_limits, verifications, nextId, arrivals, req, hooks, seen, batch, ent>>

\* ------------------------------------------------------------------ inputs
\* A well-formed request with the default thresholds.
Plain(w, force, url) ==
  SingleInput("apikey", w, "Acme", "u1", force, url, Undefined, Null, Null, Null)

\* Requests with one thing wrong.
BadWallet ==
  SingleInput("apikey", "BAD", "Acme", "u1", FALSE, Undefined, Undefined, Null, Null, Null)
BlankName ==
  SingleInput("apikey", "GW1", " ", "u1", FALSE, Undefined, Undefined, Null, Null, Null)

NoWallet ==
  SingleInput("apikey", Undefined, "Acme", "u1", FALSE, Undefined, Undefined, Null, Null, Null)

\* Concurrent requests: well-formed, for either wallet, cached or refreshed.
Inputs == {Plain(w, force, Undefined) : w \in Wallets, force \in BOOLEAN}

\* Requests in sequence: for one wallet, cached or refreshed, or with a blank
\* name.
SeqInputs == {Plain("GW1", force, Undefined) : force \in BOOLEAN} \cup {BlankName}

\* ----------------------------------------------------------- specification
Slots == {1, 2}

Init ==
  /\ now = 0
  /\ rate_limits = {}
  /\ verifications = {}
  /\ subscriptions = {}
  /\ nextId = 1
  /\ arrivals = 0
  /\ req = [r \in Slots |-> IdleReq]
  /\ hooks = <<>>
  /\ seen = [w \in Addresses |-> NotSeen]
  /\ batch = IdleBatch
  /\ ent = [k \in 1..MaxBatch |-> NewCall]

\* Concurrent verify-business requests.
Next ==
  \/ Tick
  \/ \E r \in Slots : Arrive(r, MaxArrivals, Inputs)
  \/ \E r \in Slots : RateLimitSelect(r)
  \/ \E r \in Slots : RateLimitWrite(r)
  \/ \E r \in Slots : CacheRead(r)
  \/ \E r \in Slots : Scan(r)
  \/ \E r \in Slots : Upsert(r)
  \/ \E r \in Slots : Respond(r)

Spec == Init /\ [][Next]_vars

\* Requests that name a webhook target, a well-formed one or not, or none.
HookInputs ==
  {Plain("GW1", force, url) : force \in BOOLEAN, url \in {"https://hook", "ftp://hook", Undefined}}

\* Requests that always scan the ledger, or carry a string that is no address,
\* or no walletAddress at all.
QuotaInputs == {Plain("GW1", TRUE, Undefined), BadWallet, NoWallet}

\* Thresholds a request can carry.
Thresholds == {Null, Some(0), Some(50), Some(150), Some(151)}

\* Requests over the grid of the three thresholds, for either wallet.
DecideInputs ==
  {SingleInput("apikey", w, "Acme", "u1", TRUE, Undefined, Undefined, minT, minU, minC) :
     w \in Wallets, minT \in Thresholds, minU \in {Null, Some(10), Some(11), Some(26)},
     minC \in {Null, Some(50), Some(100)}}

\* One verify-business request at a time.
NextSeq ==
  \/ Tick
  \/ Arrive(1, MaxSeqArrivals, SeqInputs)
  \/ RateLimitSelect(1)
  \/ RateLimitWrite(1)
  \/ CacheRead(1)
  \/ Scan(1)
  \/ Upsert(1)
  \/ Respond(1)

SpecSeq == Init /\ [][NextSeq]_vars

\* A target that answers with success, a permanent failure or a server error.
HookOutcomes == {"2xx", "4xx", "5xx"}

\* Requests with webhooks, one at a time, and the deliveries they start.
NextHook ==
  \/ Arrive(1, MaxHookArrivals, HookInputs)
  \/ RateLimitSelect(1)
  \/ RateLimitWrite(1)
  \/ CacheRead(1)
  \/ Scan(1)
  \/ Upsert(1)
  \/ Respond(1)
  \/ \E k \in DOMAIN hooks : WebhookAttempt(k, HookOutcomes)

SpecHook == Init /\ [][NextHook]_vars

\* Fresh scans for a user who buys a plan and uses it up.
NextQuota ==
  \/ Arrive(1, MaxQuotaArrivals, QuotaInputs)
  \/ RateLimitSelect(1)
  \/ RateLimitWrite(1)
  \/ Scan(1)
  \/ Upsert(1)
  \/ Respond(1)
  \/ \E u \in Users : CompletePayment(u)
  \/ \E u \in Users : GetSubscriptionStatus(u)

SpecQuota == Init /\ [][NextQuota]_vars

\* The elements of a batch: a well-formed one and one whose address is not one.
BatchEntries == {Entry("GW1", "Acme", "u1"), Entry("BAD", "Acme", "u1")}

\* Three well-formed elements and one whose walletAddress is "".
ThreeValidOneEmpty ==
  <<Entry("GW1", "Acme", "u1"), Entry("GW2", "Acme", "u1"), Entry("GW1", "Acme", "u1"),
    Entry("", "Acme", "u1")>>

\* Batches the handler processes, and one of each kind it rejects.
BatchInputs ==
  {BatchInput("apikey", items, force, url, Undefined, Null, Null) :
     items \in UNION {[1..n -> BatchEntries] : n \in 1..MaxBatch},
     force \in BOOLEAN, url \in {Undefined, "https://hook"}}
  \cup {BatchInput("internal", <<Entry("GW1", "Acme", "u1")>>, FALSE, Undefined, Undefined, Null, Null),
        BatchInput("apikey", <<>>, FALSE, Undefined, Undefined, Null, Null),
        BatchInput("apikey", [k \in 1..(MAX_BATCH_SIZE + 1) |-> Entry("GW1", "Acme", "u1")],
                   FALSE, Undefined, Undefined, Null, Null),
        BatchInput("apikey", <<Entry("GW1", "Acme", "u1")>>, FALSE, "ftp://hook", Undefined, Null, Null),
        BatchInput("apikey", <<Entry("GW1", "", "u1")>>, FALSE, Undefined, Undefined, Null, Null),
        BatchInput("apikey", ThreeValidOneEmpty, FALSE, Undefined, Undefined, Null, Null)}

\* The bucket that four allowed checks of GW1 at time 0 leave (four requests
\* with a blank business name, say, which store nothing else): one check of
\* the window is left.
NearlyExhausted ==
  [wallet_address |-> "GW1", request_count |-> p_max_requests - 1, window_start |-> 0]

\* A database where GW1 has made no check yet, or all of its window but one.
InitMixed ==
  /\ now = 0
  /\ \/ /\ rate_limits = {}
        /\ seen = [w \in Addresses |-> NotSeen]
     \/ /\ rate_limits = {NearlyExhausted}
        /\ seen = [w \in Addresses |->
                     IF w = "GW1" THEN [first |-> Some(0), checks |-> p_max_requests - 1,
                                        allowed |-> p_max_requests - 1]
                     ELSE NotSeen]
  /\ verifications = {}
  /\ subscriptions = {}
  /\ nextId = 1
  /\ arrivals = 0
  /\ req = [r \in Slots |-> IdleReq]
  /\ hooks = <<>>
  /\ batch = IdleBatch
  /\ ent = [k \in 1..MaxBatch |-> NewCall]

\* One batch request.
NextBatch ==
  \/ BatchArrive(BatchInputs)
  \/ \E k \in 1..MaxBatch : CallRateLimitSelect(k)
  \/ \E k \in 1..MaxBatch : CallRateLimitWrite(k)
  \/ \E k \in 1..MaxBatch : CallCacheRead(k)
  \/ \E k \in 1..MaxBatch : CallScan(k)
  \/ \E k \in 1..MaxBatch : CallUpsert(k)

SpecBatch == Init /\ [][NextBatch]_vars

\* Batches of one wallet, without webhook.
MixedBatchInputs ==
  {BatchInput("apikey", [k \in 1..n |-> Entry("GW1", "Acme", "u1")], force, Undefined,
              Undefined, Null, Null) : n \in 1..MaxMixedBatch, force \in BOOLEAN}

\* A single request and a batch side by side.
NextMixed ==
  \/ BatchArrive(MixedBatchInputs)
  \/ \E k \in 1..MaxMixedBatch : CallRateLimitSelect(k)
  \/ \E k \in 1..MaxMixedBatch : CallRateLimitWrite(k)
  \/ \E k \in 1..MaxMixedBatch : CallCacheRead(k)
  \/ \E k \in 1..MaxMixedBatch : CallScan(k)
  \/ \E k \in 1..MaxMixedBatch : CallUpsert(k)
  \/ Arrive(1, 1, {Plain("GW1", force, Undefined) : force \in BOOLEAN})
  \/ RateLimitSelect(1)
  \/ RateLimitWrite(1)
  \/ CacheRead(1)
  \/ Scan(1)
  \/ Upsert(1)
  \/ Respond(1)

SpecMixed == InitMixed /\ [][NextMixed]_vars

\* One request over the grid of thresholds: the decision as a function of its
\* inputs.
NextDecide ==
  \/ Arrive(1, 1, DecideInputs)
  \/ RateLimitSelect(1)
  \/ RateLimitWrite(1)
  \/ Scan(1)
  \/ Upsert(1)
  \/ Respond(1)

SpecDecide == Init /\ [][NextDecide]_vars

\* Requests that name a webhook target, with a secret to sign with or without.
Secrets == {Undefined, "s3cret"}

DeliverInputs ==
  {SingleInput("apikey", "GW2", "Acme", "u1", TRUE, "https://hook", secret, Null, Null, Null) :
     secret \in Secrets}

\* Batches of one element with a webhook target.
DeliverBatchInputs ==
  {BatchInput("apikey", <<Entry("GW1", "Acme", "u1")>>, TRUE, "https://hook", secret,
              Null, Null) : secret \in Secrets}

\* One request, to either endpoint, and the webhook deliveries it starts.
NextDeliver ==
  \/ batch.pc = "idle" /\ Arrive(1, 1, DeliverInputs)
  \/ RateLimitSelect(1)
  \/ RateLimitWrite(1)
  \/ Scan(1)
  \/ Upsert(1)
  \/ Respond(1)
  \/ arrivals = 0 /\ BatchArrive(DeliverBatchInputs)
  \/ CallRateLimitSelect(1)
  \/ CallRateLimitWrite(1)
  \/ CallScan(1)
  \/ CallUpsert(1)
  \/ \E k \in DOMAIN hooks : WebhookSign(k)
  \/ \E k \in DOMAIN hooks : WebhookAttempt(k, AttemptOutcomes)

SpecDeliver == Init /\ [][NextDeliver]_vars

\* The next step of call k of sendWebhookNotification.
Deliver(k) ==
  /\ k \in DOMAIN hooks
  /\ WebhookSign(k) \/ WebhookAttempt(k, AttemptOutcomes)

\* The deliveries are promises of the event loop: the timeout before an
\* attempt fires, importKey and sign resolve, and the fetch ends with a
\* response, a rejection or the abort of its 10 s timer, so a call that can
\* take its next step takes it.
SpecDeliverFair ==
  /\ SpecDeliver
  /\ \A k \in 1..SequencesStarted("void") : WF_vars(Deliver(k))

\* A signed batch webhook: three elements of which the first fails at once.
SignBatchInputs ==
  {BatchInput("apikey",
              <<Entry("BAD", "Acme", "u1"), Entry("GW1", "Acme", "u1"),
                Entry("GW1", "Acme", "u1")>>,
              force, "https://hook", "s3cret", Null, Null) : force \in BOOLEAN}

\* A target that answers with success or a server error.
SignOutcomes == {"2xx", "5xx"}

\* One batch request and the signed deliveries of its webhook.
NextSign ==
  \/ BatchArrive(SignBatchInputs)
  \/ \E k \in 1..MaxBatch : CallRateLimitSelect(k)
  \/ \E k \in 1..MaxBatch : CallRateLimitWrite(k)
  \/ \E k \in 1..MaxBatch : CallCacheRead(k)
  \/ \E k \in 1..MaxBatch : CallScan(k)
  \/ \E k \in 1..MaxBatch : CallUpsert(k)
  \/ \E k \in DOMAIN hooks : WebhookSign(k)
  \/ \E k \in DOMAIN hooks : WebhookAttempt(k, SignOutcomes)

SpecSign == Init /\ [][NextSign]_vars

\* Two requests one after the other: the second is received once the first
\* has been answered, and both answers are kept.
NextTwice ==
  \/ Tick
  \/ Receive(1, 1, Inputs)
  \/ req[1].pc = "done" /\ Receive(2, 2, Inputs)
  \/ \E r \in Slots : RateLimitSelect(r)
  \/ \E r \in Slots : RateLimitWrite(r)
  \/ \E r \in Slots : CacheRead(r)
  \/ \E r \in Slots : Scan(r)
  \/ \E r \in Slots : Upsert(r)
  \/ \E r \in Slots : Respond(r)

SpecTwice == Init /\ [][NextTwice]_vars

\* Requests for one wallet that differ only in the minTransactions they carry.
ThresholdInputs ==
  {SingleInput("apikey", "GW2", "Acme", "u1", FALSE, Undefined, Undefined, minT, Null, Null) :
     minT \in {Null, Some(50), Some(150)}}

\* The record and the bucket that one verification of GW2 at time 0, with
\* the default thresholds, leaves.
StoredScan ==
  [UpsertRow(Plain("GW2", FALSE, Undefined), Ledger("GW2").total, Ledger("GW2").unique, 0)
     EXCEPT !.id = 1]

\* A database where GW2 has been verified once.
InitStored ==
  /\ now = 0
  /\ rate_limits = {[wallet_address |-> "GW2", request_count |-> 1, window_start |-> 0]}
  /\ seen = [w \in Addresses |->
               IF w = "GW2" THEN [first |-> Some(0), checks |-> 1, allowed |-> 1]
               ELSE NotSeen]
  /\ verifications = {StoredScan}
  /\ subscriptions = {}
  /\ nextId = 2
  /\ arrivals = 0
  /\ req = [r \in Slots |-> IdleReq]
  /\ hooks = <<>>
  /\ batch = IdleBatch
  /\ ent = [k \in 1..MaxBatch |-> NewCall]

\* Concurrent requests that differ in their thresholds.
NextThresholds ==
  \/ Tick
  \/ \E r \in Slots : Arrive(r, MaxThresholdArrivals, ThresholdInputs)
  \/ \E r \in Slots : RateLimitSelect(r)
  \/ \E r \in Slots : RateLimitWrite(r)
  \/ \E r \in Slots : CacheRead(r)
  \/ \E r \in Slots : Scan(r)
  \/ \E r \in Slots : Upsert(r)
  \/ \E r \in Slots : Respond(r)

SpecThresholds == InitStored /\ [][NextThresholds]_vars

\* Requests that scan the ledger of either wallet.
PageInputs == {Plain(w, TRUE, Undefined) : w \in Wallets \cup Whales}

\* Requests in sequence whose scan is followed page by page.
NextPages ==
  \/ Arrive(1, MaxPageArrivals, PageInputs)
  \/ RateLimitSelect(1)
  \/ RateLimitWrite(1)
  \/ FetchPage(1)
  \/ Upsert(1)
  \/ Respond(1)

SpecPages == Init /\ [][NextPages]_vars

\* Batches of one element, for each account, and one of two.
PageBatchInputs ==
  {BatchInput("apikey", <<Entry(w, "Acme", "u1")>>, TRUE, Undefined, Undefined, Null, Null) :
     w \in Wallets \cup Whales}
  \cup {BatchInput("apikey", <<Entry("GW1", "Acme", "u1"), Entry("GW2", "Acme", "u1")>>,
                    TRUE, Undefined, Undefined, Null, Null)}

\* One batch request whose scans are followed page by page.
NextBatchPages ==
  \/ BatchArrive(PageBatchInputs)
  \/ \E k \in 1..MaxBatch : CallRateLimitSelect(k)
  \/ \E k \in 1..MaxBatch : CallRateLimitWrite(k)
  \/ \E k \in 1..MaxBatch : CallFetchPage(k)
  \/ \E k \in 1..MaxBatch : CallUpsert(k)

SpecBatchPages == Init /\ [][NextBatchPages]_vars

\* One request to one of the two endpoints, its scans followed page by page.
NextScans ==
  \/ batch.pc = "idle" /\ Arrive(1, MaxScanArrivals, PageInputs)
  \/ RateLimitSelect(1)
  \/ RateLimitWrite(1)
  \/ FetchPage(1)
  \/ Upsert(1)
  \/ Respond(1)
  \/ arrivals = 0 /\ BatchArrive(PageBatchInputs)
  \/ \E k \in 1..MaxBatch : CallRateLimitSelect(k)
  \/ \E k \in 1..MaxBatch : CallRateLimitWrite(k)
  \/ \E k \in 1..MaxBatch : CallFetchPage(k)
  \/ \E k \in 1..MaxBatch : CallUpsert(k)

\* The page request of call k of a batch.
CallFetch(k) == k \in DOMAIN ent /\ CallFetchPage(k)

\* The awaited fetch of a page resolves, rejects or is aborted by the 30 s
\* timer, so a scan that is waiting for a page takes its next step.
SpecScansFair ==
  /\ Init /\ [][NextScans]_vars
  /\ WF_vars(FetchPage(1))
  /\ \A k \in 1..MaxBatch : WF_vars(CallFetch(k))

\* A batch of MaxWide elements that scans the ledger for each: the third is
\* no address, the others are for the two wallets.
WideBatchInputs ==
  {BatchInput("apikey",
              [k \in 1..MaxWide |->
                 Entry(IF k = CONCURRENCY_LIMIT THEN "BAD"
                       ELSE IF k < CONCURRENCY_LIMIT THEN "GW1" ELSE "GW2", "Acme", "u1")],
              TRUE, Undefined, Undefined, Null, Null)}

\* The database as created, with room for the calls of a batch of MaxWide.
InitWide ==
  /\ now = 0
  /\ rate_limits = {}
  /\ verifications = {}
  /\ subscriptions = {}
  /\ nextId = 1
  /\ arrivals = 0
  /\ req = [r \in Slots |-> IdleReq]
  /\ hooks = <<>>
  /\ seen = [w \in Addresses |-> NotSeen]
  /\ batch = IdleBatch
  /\ ent = [k \in 1..MaxWide |-> NewCall]

\* One batch request of more elements than the concurrency limit.
NextWide ==
  \/ BatchArrive(WideBatchInputs)
  \/ \E k \in 1..MaxWide : CallRateLimitSelect(k)
  \/ \E k \in 1..MaxWide : CallRateLimitWrite(k)
  \/ \E k \in 1..MaxWide : CallScan(k)
  \/ \E k \in 1..MaxWide : CallUpsert(k)

SpecWide == InitWide /\ [][NextWide]_vars

\* The subscription complete-pi-payment stores for a Basic plan bought at
\* time 0, none of it used.
BasicPlan(u) ==
  [external_user_id |-> u, tier |-> "basic", verifications_limit |-> BasicLimit,
   verifications_used |-> 0, expires_at |-> Some(Month)]

\* A database where the user holds an unused Basic plan, and GW1 has made no
\* check yet, or all of its window but one.
InitUsage ==
  /\ now = 0
  /\ \/ /\ rate_limits = {}
        /\ seen = [w \in Addresses |-> NotSeen]
     \/ /\ rate_limits = {NearlyExhausted}
        /\ seen = [w \in Addresses |->
                     IF w = "GW1" THEN [first |-> Some(0), checks |-> p_max_requests - 1,
                                        allowed |-> p_max_requests - 1]
                     ELSE NotSeen]
  /\ verifications = {}
  /\ subscriptions = {BasicPlan(u) : u \in Users}
  /\ nextId = 1
  /\ arrivals = 0
  /\ req = [r \in Slots |-> IdleReq]
  /\ hooks = <<>>
  /\ batch = IdleBatch
  /\ ent = [k \in 1..MaxBatch |-> NewCall]

\* Requests of a subscriber, one at a time.
NextUsage ==
  \/ Tick
  \/ Arrive(1, MaxUsageArrivals, SeqInputs)
  \/ RateLimitSelect(1)
  \/ RateLimitWrite(1)
  \/ CacheRead(1)
  \/ Scan(1)
  \/ Upsert(1)
  \/ Respond(1)

SpecUsage == InitUsage /\ [][NextUsage]_vars

\* ------------------------------------------------------------------ claims
\* The stored record of a wallet that is younger than one hour now, if any.
FreshRecords(w) == {v \in verifications : v.wallet_address = w /\ now - v.updated_at < Hour}

\* C1: a request that the rate limiter refuses, a single-verify request or an
\* element of a batch, makes no ledger request and writes no verification
\* record: it ends there, the single request with 429, the element with a
\* failed result, and the step that refuses leaves the verifications alone.
C1_RefusedDoesNothing ==
  /\ [](\A r \in Slots :
          LET q == req[r] IN
          ("rate_limit" \in q.effects /\ q.rl.error = "" /\ ~q.rl.allowed) =>
            /\ q.pc = "done"
            /\ q.resp.status = 429
            /\ q.effects = {"rate_limit"})
  /\ [](\A k \in DOMAIN ent :
          LET c == ent[k] IN
          ("rate_limit" \in c.effects /\ c.rl.error = "" /\ ~c.rl.allowed) =>
            /\ c.pc = "done"
            /\ ~c.result.success
            /\ c.result.data = Null
            /\ c.effects = {"rate_limit"})
  /\ [][(\/ \E r \in Slots :
              req'[r].rl # req[r].rl /\ req'[r].rl.error = "" /\ ~req'[r].rl.allowed
         \/ \E k \in DOMAIN ent :
              ent'[k].rl # ent[k].rl /\ ent'[k].rl.error = "" /\ ~ent'[k].rl.allowed) =>
           verifications' = verifications]_vars

\* C1 witness: the limiter has refused a single request and an element of a
\* batch, while another element of the batch stored a record.
C1_Witness ==
  /\ req[1].pc = "done" /\ req[1].rl.error = "" /\ ~req[1].rl.allowed
  /\ \E k \in DOMAIN ent :
        ent[k].pc = "done" /\ ent[k].rl.error = "" /\ ~ent[k].rl.allowed
  /\ \E k \in DOMAIN ent : "upsert" \in ent[k].effects

\* C2: checks made one after another on one wallet, starting from no bucket:
\* of the checks made less than a window after the first, the first five are
\* allowed and every further one is refused; a refused check is answered 429
\* with X-RateLimit-Limit 5, X-RateLimit-Remaining 0, X-RateLimit-Reset the
\* window start plus the window, and an error starting "Rate limit exceeded".
C2_FirstFiveThenRefused ==
  /\ \A w \in Addresses :
        seen[w].allowed = (IF seen[w].checks <= 5 THEN seen[w].checks ELSE 5)
  /\ LET q == req[1] IN
      (q.pc = "done" /\ "rate_limit" \in q.effects /\ q.rl.error = "") =>
        IF q.rl.allowed THEN q.resp.status # 429
        ELSE /\ q.resp.status = 429
             /\ q.resp.XRateLimitLimit = "5"
             /\ q.resp.XRateLimitRemaining = "0"
             /\ \E b \in rate_limits :
                   /\ b.wallet_address = trim(q.in.walletAddress)
                   /\ q.resp.XRateLimitReset = Some(b.window_start + 1 * Hour)
             /\ q.resp.error # Null
             /\ q.resp.error[1] = "Rate limit exceeded"

\* C2 witness: a sixth check within the window of the first was answered 429.
C2_Witness ==
  /\ seen["GW1"].checks >= 6
  /\ seen["GW1"].allowed = 5
  /\ req[1].pc = "done"
  /\ req[1].resp.status = 429

\* C3 (as the specification states it): under any interleaving of concurrent
\* checks on one wallet the stored count never exceeds the maximum, no check
\* fails because another check created the bucket first, at most five checks
\* are allowed per window, and a wallet has at most one bucket.
C3_AtomicCheck ==
  /\ \A b \in rate_limits : b.request_count <= 5
  /\ \A r \in Slots : req[r].rl.error # DuplicateKey
  /\ \A w \in Addresses : seen[w].allowed <= 5
  /\ \A w \in Addresses : Cardinality({b \in rate_limits : b.wallet_address = w}) <= 1

\* C4: a single-verify request with forceRefresh false whose wallet has a
\* stored record younger than one hour at the lookup is answered by that
\* lookup: 200, cached true, X-Cache HIT, cacheExpiresAt the record's
\* updatedAt plus one hour, the record's data; it makes no ledger request and
\* no increment_verification_usage call, and writes nothing.
C4_CacheHit ==
  [][\A r \in Slots :
       LET q == req[r]
           w == trim(q.in.walletAddress)
       IN  (q.pc = "cache" /\ req'[r] # q /\ ~q.in.forceRefresh /\ FreshRecords(w) # {}) =>
             \E v \in FreshRecords(w) :
               /\ req'[r].pc = "done"
               /\ req'[r].resp.status = 200
               /\ req'[r].resp.success
               /\ req'[r].resp.cached = Some(TRUE)
               /\ req'[r].resp.XCache = "HIT"
               /\ req'[r].resp.cacheExpiresAt = Some(v.updated_at + Hour)
               /\ req'[r].resp.XCacheExpires = Some(v.updated_at + Hour)
               /\ req'[r].resp.data = Some(ResponseData(v))
               /\ req'[r].effects \cap {"ledger", "upsert", "usage", "webhook"} = {}
               /\ verifications' = verifications
               /\ subscriptions' = subscriptions
               /\ hooks' = hooks]_vars

\* C4 witness: a request answered from a record stored an earlier tick.
C4_Witness ==
  \E r \in Slots :
    /\ req[r].pc = "done"
    /\ ~req[r].in.forceRefresh
    /\ req[r].resp.XCache = "HIT"
    /\ req[r].resp.data # Null
    /\ req[r].resp.data[1].verifiedAt < now

C6_ThreeThresholds ==
  LET q == req[1]
      row == q.row
      scanned == IF row.total_transactions = 0
                   THEN [total |-> 0, unique |-> 0, credited |-> 0]
                   ELSE Ledger(row.wallet_address)
      minTotal == IF q.in.minTransactions = Null THEN 100 ELSE q.in.minTransactions[1]
      minCredited == IF q.in.minCreditedTransactions = Null THEN 0
                     ELSE q.in.minCreditedTransactions[1]
      minUnique == IF q.in.minUniqueWallets = Null THEN 10 ELSE q.in.minUniqueWallets[1]
      meets == /\ scanned.total >= minTotal
               /\ scanned.credited >= minCredited
               /\ scanned.unique >= minUnique
  IN  q.pc \in {"upsert", "usage"} =>
        /\ row.meets_requirements = meets
        /\ (row.verification_status = "approved") = meets

\* C7 (as the specification states it): on a cache miss single-verify asks
\* check_verification_allowance before it scans the ledger, and a user with
\* no allowance left is answered 403: no request of such a user reaches the
\* ledger scan.
C7_AllowanceGate ==
  \A r \in Slots :
    req[r].pc = "scan" =>
      check_verification_allowance(trim(req[r].in.externalUserId), now).allowed

\* C10: single-verify starts a webhook delivery only for a record its upsert
\* stored; a request whose upsert failed, or that was answered earlier, starts
\* none; and the response is returned while the delivery it queued has not
\* completed an attempt.
C10_WebhookAfterUpsert ==
  /\ [](\A k \in DOMAIN hooks :
          /\ \E v \in verifications : v.id = hooks[k].data.verificationId
          /\ hooks[k].owner = req[1].id =>
                /\ {"upsert", "webhook"} \subseteq req[1].effects
                /\ req[1].pc = "done"
                /\ req[1].resp.status = 200
                /\ req[1].resp.webhookQueued = Some(TRUE))
  /\ [](("webhook" \in req[1].effects) => ("upsert" \in req[1].effects))
  /\ [][(req'[1].pc = "done" /\ req[1].pc # "done") =>
          /\ \A k \in DOMAIN hooks' :
                hooks'[k].owner = req'[1].id =>
                  (hooks'[k].attempt = 0 /\ hooks'[k].status = "pending")
          /\ (req'[1].resp.webhookQueued = Some(TRUE)) = (Len(hooks') > Len(hooks))
          /\ (req'[1].resp.status # 200 \/ req'[1].resp.cached = Some(TRUE)) =>
                hooks' = hooks]_vars

\* C10 witness: a delivery has succeeded for a request that was answered 200
\* with webhookQueued, and another request's upsert failed with a webhook
\* target named.
C10_Witness ==
  /\ \E k \in DOMAIN hooks : hooks[k].status = "succeeded" /\ hooks[k].owner = 1
  /\ req[1].id = 2
  /\ req[1].pc = "done"
  /\ req[1].in.webhookUrl = "https://hook"
  /\ req[1].resp.error = Some("Failed to save verification data")

\* C8 (as the specification states it): the batch response is produced only
\* after every one of the n elements has finished, with exactly one result
\* per element: totalProcessed = totalRequested = n and totalSuccessful +
\* totalFailed = n.
C8_AllProcessed ==
  (batch.pc = "done" /\ batch.resp.status = 200) =>
    LET n == Len(batch.in.verifications)
        resp == batch.resp
    IN  /\ \A k \in 1..n : ent[k].pc = "done"
        /\ resp.totalRequested = n
        /\ resp.totalProcessed = n
        /\ resp.totalSuccessful + resp.totalFailed = n
        /\ \A k \in 1..n :
              Cardinality({i \in 1..Len(resp.results) : resp.results[i].entry = k}) = 1

\* C9 (as the specification states it): the results of the batch response
\* are in the order of the elements of the request.
C9_InputOrder ==
  (batch.pc = "done" /\ batch.resp.status = 200) =>
    \A i \in 1..Len(batch.resp.results) :
      /\ batch.resp.results[i].entry = i
      /\ batch.resp.results[i].walletAddress = batch.in.verifications[i].walletAddress

\* The outcomes of an attempt after which the loop goes round again.
Retryable == {"429", "5xx", "network", "timeout"}

C12_SignedIsSent ==
  \A k \in DOMAIN hooks :
    (hooks[k].secret /\ hooks[k].signed # Null /\ hooks[k].sent # Null) =>
      hooks[k].sent = hooks[k].signed

\* C13 (as the specification states it): a batch request with a webhook
\* target starts its webhook once every element has completed, so that the
\* totals of the payload cover all n elements, and it starts it exactly once.
C13_BatchWebhookOnceAfterAll ==
  LET n == Len(batch.in.verifications)
      started == {k \in DOMAIN hooks : hooks[k].event = "batch.verification.completed"}
  IN  /\ \A k \in started :
            /\ \A j \in 1..n : ent[j].pc = "done"
            /\ hooks[k].data.totalRequested = n
            /\ hooks[k].data.totalSuccessful + hooks[k].data.totalFailed = n
      /\ (batch.pc = "done" /\ batch.resp.webhookQueued = Some(TRUE)) =>
            Cardinality(started) = 1

\* C14 (as the specification states it): a batch of three valid elements and
\* one with walletAddress "" is answered 200; the three are processed, the
\* fourth gets a failed result whose error says the format is invalid, and
\* totalFailed counts it.
C14_EmptyAddressIsEntryFailure ==
  (batch.pc = "done" /\ batch.in.cred = "apikey"
     /\ batch.in.verifications = ThreeValidOneEmpty) =>
    /\ batch.resp.status = 200
    /\ batch.resp.totalRequested = 4
    /\ batch.resp.totalFailed >= 1
    /\ \E i \in 1..Len(batch.resp.results) :
          /\ batch.resp.results[i].entry = 4
          /\ ~batch.resp.results[i].success
          /\ batch.resp.results[i].error = <<"Invalid Pi Network wallet address format">>

C16_UsageOnceAfterUpsert ==
  /\ [](LET q == req[1] IN
        /\ ("usage" \in q.effects) =>
              /\ "upsert" \in q.effects
              /\ q.resp.status = 200
              /\ q.resp.cached = Some(FALSE)
        /\ (q.pc = "done" /\ (q.resp.status # 200 \/ q.resp.cached = Some(TRUE))) =>
              "usage" \notin q.effects)
  /\ [][LET q == req[1] IN
        /\ (subscriptions' # subscriptions) =>
              /\ q.pc = "usage" /\ req'[1].pc = "done"
              /\ "upsert" \in q.effects
              /\ \E s \in subscriptions :
                    /\ s.external_user_id = trim(q.in.externalUserId)
                    /\ subscriptions' = (subscriptions \ {s}) \cup
                          {[s EXCEPT !.verifications_used = s.verifications_used + 1]}
        /\ (q.pc = "usage" /\ req'[1] # q) =>
              /\ req'[1].pc = "done"
              /\ req'[1].resp.status = 200
              /\ req'[1].resp.success
              /\ q.row \in verifications
              /\ req'[1].resp.data = Some(ResponseData(q.row))]_vars

\* C16 witness: the only request so far stored its record and was answered
\* 200, and the user's verifications_used is still 0: the increment failed.
C16_Witness ==
  /\ arrivals = 1
  /\ req[1].pc = "done"
  /\ {"upsert", "usage"} \subseteq req[1].effects
  /\ req[1].resp.status = 200
  /\ \A s \in subscriptions : s.verifications_used = 0

\* C17 (as the specification states it): a single-verify request whose ledger
\* scan fails with a status other than 2xx and 404 is answered 503, and one
\* whose ledger request times out is answered 504; neither stores a record.
C17_LedgerFailureStatus ==
  LET q == req[1] IN
  (q.pc = "done" /\ "ledger" \in q.effects /\ q.resp.error # Null) =>
    /\ (q.resp.error[1] = "Pi Network API error: ") =>
          (q.resp.status = 503 /\ "upsert" \notin q.effects)
    /\ (q.resp.error[1] = "Pi Network API request timed out") =>
          (q.resp.status = 504 /\ "upsert" \notin q.effects)

\* The two credentials: a matching API key, a valid internal-call credential.
Credentials == {"apikey", "internal"}

\* C18 (as the specification states it): on both endpoints a request that
\* carries neither credential is answered 401 and does nothing else, and a
\* request that carries one of the two is not refused by the auth step.
C18_AuthOnBothEndpoints ==
  /\ \A r \in Slots :
        req[r].pc = "done" =>
          IF req[r].in.cred \in Credentials
            THEN req[r].resp.status # 401
            ELSE req[r].resp.status = 401 /\ req[r].effects = {}
  /\ batch.pc = "done" =>
        IF batch.in.cred \in Credentials
          THEN batch.resp.status # 401
          ELSE /\ batch.resp.status = 401
               /\ \A k \in DOMAIN ent : ent[k] = NewCall
               /\ hooks = <<>>

\* C19 (as the specification states it): body validation precedes rate
\* limiting: a single-verify request answered 400 because its businessName or
\* externalUserId is missing or blank has not been counted in the bucket of
\* its wallet.
C19_ValidationBeforeRateLimit ==
  LET q == req[1] IN
  (/\ q.pc = "done"
   /\ q.resp.status = 400
   /\ q.resp.error \in {<<"Business name is required">>, <<"External user ID is required">>}) =>
    ~("rate_limit" \in q.effects /\ q.rl.error = "" /\ q.rl.allowed)

\* A body that lacks one of the three required fields, or gives an empty,
\* blank or malformed value for it.
InvalidBody(i) ==
  \/ Falsy(i.walletAddress) \/ ~isValidPiWalletAddress(trim(i.walletAddress))
  \/ Falsy(i.businessName) \/ trim(i.businessName) = ""
  \/ Falsy(i.externalUserId) \/ trim(i.externalUserId) = ""

\* C20 (as the specification states it): an authorized single-verify request
\* with such a body, if the rate limiter has not refused it, is answered 400
\* with success false and an error, and reaches neither the ledger nor the
\* verification records.
C20_InvalidBodyIs400 ==
  LET q == req[1] IN
  (/\ q.pc = "done"
   /\ Authorized(q.in.cred)
   /\ InvalidBody(q.in)
   /\ ~RateLimitRefuses(q.rl)) =>
    /\ q.resp.status = 400
    /\ ~q.resp.success
    /\ q.resp.error # Null
    /\ q.effects \cap {"ledger", "upsert"} = {}

\* C21 (as the specification states it): a check made when the time since the
\* bucket's window_start is the window or more, so also a check made exactly
\* at the reset time a refusal announced, takes the resetting branch: it is
\* allowed and leaves the bucket at count 1 with window_start now.
C21_ResetAtWindowEnd ==
  [][LET q == req[1]
         w == trim(q.in.walletAddress)
     IN  (/\ q.pc = "rl_select" /\ req'[1] # q
          /\ req'[1].rl.error = ""
          /\ \E b \in rate_limits :
                b.wallet_address = w /\ now - b.window_start >= 1 * Hour) =>
           /\ req'[1].pc = "rl_write"
           /\ req'[1].branch = "reset"]_vars

\* C22: there is at most one verification record per wallet; a record is
\* never removed and keeps its id; the records change only when an upsert
\* succeeds, and then the wallet's record becomes the complete row of that
\* scan, whether the record is new or replaces one (after expiry, with
\* forceRefresh, or as the second of two concurrent misses); and a request
\* whose upsert succeeded is answered 200 with the id of the wallet's record.
C22_OneRecordPerWallet ==
  /\ [](\A w \in Wallets : Cardinality(CachedRows(w)) <= 1)
  /\ [](\A r \in Slots :
          (req[r].pc = "done" /\ "upsert" \in req[r].effects) =>
            /\ req[r].resp.status = 200
            /\ \E v \in verifications :
                  /\ v.wallet_address = trim(req[r].in.walletAddress)
                  /\ v.id = req[r].resp.data[1].verificationId)
  /\ [][\A v \in verifications :
          \E v2 \in verifications' : v2.wallet_address = v.wallet_address /\ v2.id = v.id]_vars
  /\ [][(verifications' # verifications) =>
          \E r \in Slots :
            LET q == req[r]
                w == q.row.wallet_address
            IN  /\ q.pc = "upsert" /\ req'[r].pc = "usage"
                /\ \E v2 \in verifications' :
                      /\ v2 = req'[r].row
                      /\ [v2 EXCEPT !.id = 0] = q.row
                /\ \A v3 \in verifications' :
                      v3.wallet_address # w => v3 \in verifications]_vars

\* C22 witness: two requests that both missed the cold cache of one wallet
\* both scanned it, with different results, and both were answered 200 with
\* the same verificationId; the stored record is the result of one of them.
C22_Witness ==
  /\ \A r \in Slots :
        /\ req[r].pc = "done" /\ req[r].resp.status = 200
        /\ ~req[r].in.forceRefresh /\ req[r].lookup = Null
        /\ "upsert" \in req[r].effects
  /\ req[1].in.walletAddress = req[2].in.walletAddress
  /\ req[1].resp.data # req[2].resp.data
  /\ req[1].resp.data[1].verificationId = req[2].resp.data[1].verificationId
  /\ \E v \in verifications :
        Some(ResponseData(v)) \in {req[1].resp.data, req[2].resp.data}

\* A decision as the specification wants it: approved or rejected, approved
\* exactly when the requirements are met, a failure reason exactly when not.
Decided(status, meets, reason) ==
  /\ status \in {"approved", "rejected"}
  /\ (status = "approved") = meets
  /\ meets = (reason = Null)

\* C23: every stored verification record, every 200 response of single-verify
\* (fresh or cached) and every successful result of a batch element (fresh or
\* cached) has verificationStatus approved or rejected, never under_review,
\* with approved exactly when meetsRequirements is true and exactly when
\* there is no failureReason.
C23_DecisionConsistent ==
  /\ \A v \in verifications :
        Decided(v.verification_status, v.meets_requirements, v.failure_reason)
  /\ \A r \in Slots :
        (req[r].pc = "done" /\ req[r].resp.status = 200) =>
          LET d == req[r].resp.data[1] IN
          Decided(d.verificationStatus, d.meetsRequirements, d.failureReason)
  /\ \A k \in DOMAIN ent :
        (ent[k].pc = "done" /\ ent[k].result.success) =>
          LET d == ent[k].result.data[1] IN
          Decided(d.verificationStatus, d.meetsRequirements, d.failureReason)

\* C23 witness: single-verify answered from the cache with a rejected record
\* that a batch element stored, and another element of the batch was approved
\* by its own scan.
C23_Witness ==
  /\ req[1].pc = "done" /\ req[1].resp.cached = Some(TRUE)
  /\ req[1].resp.data[1].verificationStatus = "rejected"
  /\ req[1].resp.data[1].failureReason # Null
  /\ \E k \in DOMAIN ent :
        /\ ent[k].pc = "done" /\ ent[k].result.success
        /\ ent[k].result.cached = Some(FALSE)
        /\ ent[k].result.data[1].verificationStatus = "approved"

\* The rows of the table webhook_delivery_logs: the migration creates it, and
\* no function inserts into it or updates it.
webhook_delivery_logs == {}

\* C24: every call of sendWebhookNotification has a delivery-log row of its
\* own, and once the call is over the row holds the attempts made and the
\* final status.
C24_DeliveryLogged ==
  \A k \in DOMAIN hooks :
    \E row \in webhook_delivery_logs :
      /\ row.verification_id = hooks[k].data.verificationId
      /\ (hooks[k].status # "pending") => row.attempts = hooks[k].attempt

\* The words of a piece of a failure reason: a literal of the template is
\* split at its blanks, an interpolated number is one word.
PieceWords(piece) ==
  CASE piece = "Insufficient transactions (" -> <<"Insufficient", "transactions", "(">>
    [] piece = ") and unique wallets (" -> <<")", "and", "unique", "wallets", "(">>
    [] piece = "Insufficient unique wallets (" -> <<"Insufficient", "unique", "wallets", "(">>
    [] OTHER -> <<piece>>

RECURSIVE ReasonWords(_)
ReasonWords(reason) ==
  IF reason = <<>> THEN <<>> ELSE PieceWords(Head(reason)) \o ReasonWords(Tail(reason))

\* text.includes(phrase), word by word.
Includes(text, phrase) ==
  \E i \in 1..(Len(text) - Len(phrase) + 1) : SubSeq(text, i, i + Len(phrase) - 1) = phrase

\* C25: the failure reason of a rejected verification names every threshold
\* that was not met, each as "Insufficient transactions (actual/required)" or
\* "Insufficient unique wallets (actual/required)".
C25_ReasonNamesEachUnmet ==
  LET q == req[1]
      row == q.row
      minTotal == IF q.in.minTransactions = Null THEN 100 ELSE q.in.minTransactions[1]
      minUnique == IF q.in.minUniqueWallets = Null THEN 10 ELSE q.in.minUniqueWallets[1]
      words == ReasonWords(row.failure_reason)
  IN  (q.pc \in {"upsert", "usage"} /\ ~row.meets_requirements) =>
        /\ row.total_transactions < minTotal =>
              Includes(words, <<"Insufficient", "transactions", "(",
                                Str(row.total_transactions), "/", Str(minTotal), ")">>)
        /\ row.unique_wallets < minUnique =>
              Includes(words, <<"Insufficient", "unique", "wallets", "(",
                                Str(row.unique_wallets), "/", Str(minUnique), ")">>)

\* C26: an element of a batch goes through the steps of single-verify, with
\* the same effects and the same failure reason: an element whose scan was
\* stored has had the usage of its user counted, and the failure reason of
\* its result is the one single-verify gives for the same counters and
\* thresholds.
C26_BatchEntryAsSingle ==
  \A k \in DOMAIN ent :
    (ent[k].pc = "done" /\ ent[k].result.success /\ "upsert" \in ent[k].effects) =>
      LET d == ent[k].result.data[1]
          minT == Effective(batch.in.minTransactions, DEFAULT_MIN_TRANSACTIONS)
          minU == Effective(batch.in.minUniqueWallets, DEFAULT_MIN_UNIQUE_WALLETS)
      IN  /\ "usage" \in ent[k].effects
          /\ d.failureReason = FailureReason(d.totalTransactions, d.uniqueWallets, minT, minU)

\* C27: a request answered from the cache gets the stored decision whatever
\* thresholds it carries: its data is the record it read, and two requests
\* that read the same record get the same response.
C27_CacheIgnoresThresholds ==
  /\ \A r \in Slots :
        (req[r].pc = "done" /\ req[r].resp.cached = Some(TRUE)) =>
          /\ req[r].lookup # Null
          /\ req[r].resp.data = Some(ResponseData(req[r].lookup[1]))
  /\ \A r1, r2 \in Slots :
        (/\ req[r1].pc = "done" /\ req[r1].resp.cached = Some(TRUE)
         /\ req[r2].pc = "done" /\ req[r2].resp.cached = Some(TRUE)
         /\ req[r1].lookup = req[r2].lookup) =>
          req[r1].resp = req[r2].resp

\* C27 witness: two requests with different minTransactions were answered
\* from the same record, and the thresholds of one of them would have
\* decided the other way.
C27_Witness ==
  /\ req[1].pc = "done" /\ req[1].resp.cached = Some(TRUE)
  /\ req[2].pc = "done" /\ req[2].resp.cached = Some(TRUE)
  /\ req[1].lookup = req[2].lookup
  /\ req[1].in.minTransactions # req[2].in.minTransactions
  /\ LET d == req[1].resp.data[1] IN
       d.meetsRequirements #
         MeetsRequirements(d.totalTransactions, d.uniqueWallets,
                           Effective(req[1].in.minTransactions, DEFAULT_MIN_TRANSACTIONS),
                           Effective(req[1].in.minUniqueWallets, DEFAULT_MIN_UNIQUE_WALLETS))

\* C28: a 404 from the ledger never discards what the scan has already
\* counted: the counters the decision is taken on are at least those counted
\* in the pages read before.
C28_NotFoundKeepsCounted ==
  [][(req[1].pc = "scan" /\ req'[1].pc = "upsert") =>
       /\ req'[1].row.total_transactions >= req[1].counted.total
       /\ req'[1].row.unique_wallets >= req[1].counted.unique]_vars

\* C29: at no time are more than CONCURRENCY_LIMIT calls of
\* processVerification of a batch in flight (started and not yet returned).
C29_AtMostThreeInFlight ==
  Cardinality({k \in DOMAIN ent : ent[k].pc \notin {"new", "done"}}) <= CONCURRENCY_LIMIT

\* C30: a request that queues a webhook starts exactly one delivery sequence,
\* of at most maxRetries POSTs, on a runtime with waitUntil or without, and
\* whatever waitUntil returns.
C30_OneSequencePerRequest ==
  \A r \in Slots :
    (req[r].pc = "done" /\ req[r].resp.webhookQueued = Some(TRUE)) =>
      LET started == {k \in DOMAIN hooks : hooks[k].owner = req[r].id} IN
      /\ Cardinality(started) = 1
      /\ \A k \in started : hooks[k].attempt <= maxRetries

\* C31: the scan of a batch element requests a further page only if the page
\* before held exactly limit records and the transactions counted so far are
\* fewer than 10 000.
C31_FurtherPageBelowLimit ==
  [][\A k \in DOMAIN ent :
       (ent[k].pc = "scan" /\ ent'[k].pc = "scan" /\ ent'[k].page = ent[k].page + 1) =>
         /\ Len(PageOf(trim(batch.in.verifications[k].walletAddress), ent'[k].page)) = limit
         /\ ent'[k].counted.total < TransactionLimit]_vars

\* The payment-type records among the first n pages of an account, as
\* <<page, position>>.
PaymentsIn(w, n) ==
  {pi \in UNION {{<<p, i>> : i \in 1..Len(PageOf(w, p))} : p \in 1..n} :
     PageOf(w, pi[1])[pi[2]].type \in PaymentTypes}

\* The distinct counterparties, other than the account itself, of those
\* records.
CounterpartiesIn(w, n) ==
  {Counterparty(PageOf(w, pi[1])[pi[2]], w) : pi \in PaymentsIn(w, n)} \ {Undefined, "", w}

\* C32: a scan that returns counters without error returns, as total, the
\* number of payment-type records in the pages it fetched and, as unique
\* wallets, the number of their distinct counterparties other than the
\* wallet.
C32_CountersAreThoseOfThePages ==
  [][(req[1].pc = "scan" /\ req'[1].pc = "upsert") =>
       LET w == trim(req[1].in.walletAddress) IN
       /\ req'[1].row.total_transactions = Cardinality(PaymentsIn(w, req'[1].page))
       /\ req'[1].row.unique_wallets = Cardinality(CounterpartiesIn(w, req'[1].page))]_vars

\* The payment-type records among the first n pages of an account whose
\* receiver is the account.
CreditedIn(w, n) == {pi \in PaymentsIn(w, n) : PageOf(w, pi[1])[pi[2]].to = w}

\* C33: after each page of a scan and after a scan that returned its
\* counters, the unique wallets are no more than the total, and the payments
\* received by the wallet among the records fetched are no more than the
\* total.
C33_CreditedAndUniqueWithinTotal ==
  LET q == req[1]
      w == trim(q.in.walletAddress)
  IN  /\ q.pc = "scan" =>
            /\ q.counted.unique <= q.counted.total
            /\ Cardinality(CreditedIn(w, q.page)) <= q.counted.total
      /\ q.pc = "upsert" =>
            /\ q.row.unique_wallets <= q.row.total_transactions
            /\ Cardinality(CreditedIn(w, q.page)) <= q.row.total_transactions

\* C34: a request whose check_rate_limit call returned an error goes on to
\* none of the cache read, the ledger scan and the upsert.
C34_StoreFailureStopsRequest ==
  \A r \in Slots :
    req[r].rl.error # "" =>
      /\ req[r].pc = "done"
      /\ req[r].effects \cap {"cache_read", "ledger", "upsert"} = {}

\* C35: a check that is refused leaves the table of buckets as it is; a
\* check that is allowed without creating or resetting the bucket adds
\* exactly 1 to its count, leaves its window start and every other bucket
\* alone, and returns the reset time of that unchanged window.
C35_WindowAnchored ==
  [][\A r \in Slots :
       LET q == req[r]
           w == trim(q.in.walletAddress)
       IN  /\ (q.pc = "rl_select" /\ req'[r].pc = "done"
                  /\ req'[r].rl.error = "" /\ ~req'[r].rl.allowed) =>
                 rate_limits' = rate_limits
           /\ (q.pc = "rl_write" /\ q.branch = "incr" /\ req'[r] # q) =>
                 \E b \in RateRows(w) :
                    /\ rate_limits' = (rate_limits \ {b}) \cup
                                        {[b EXCEPT !.request_count = b.request_count + 1]}
                    /\ req'[r].rl = RateResult("", TRUE, b.request_count + 1,
                                                 b.window_start + 1 * Hour)]_vars

\* C35 witness: after the first check at time 0 and four more allowed ones,
\* a check made later is refused: the bucket holds 5 checks and the window
\* start of the first.
C35_Witness ==
  /\ now >= 1
  /\ req[1].pc = "done" /\ req[1].resp.status = 429
  /\ req[1].rl = RateResult("", FALSE, 5, 0 + 1 * Hour)
  /\ \E b \in rate_limits :
        b.wallet_address = "GW1" /\ b.request_count = 5 /\ b.window_start = 0
  /\ seen["GW1"].first = Some(0)

C37_NoWebhookOnCacheHit ==
  /\ [][(req[1].pc = "cache" /\ req'[1].pc = "done") =>
          /\ hooks' = hooks
          /\ req'[1].resp.cached = Some(TRUE)
          /\ req'[1].resp.webhookQueued # Some(TRUE)
          /\ "webhook" \notin req'[1].effects]_vars
  /\ [][(Len(hooks') > Len(hooks)) =>
          /\ req[1].pc = "usage"
          /\ {"ledger", "upsert"} \subseteq req[1].effects
          /\ \E v \in verifications : v = req[1].row
          /\ \A h \in (Len(hooks) + 1)..Len(hooks') : hooks'[h].owner = req[1].id]_vars

\* C37 witness: the second request carries a valid webhookUrl, is answered
\* from the cache, and no webhook is owned by it.
C37_Witness ==
  /\ req[1].id = 2 /\ req[1].pc = "done"
  /\ req[1].in.webhookUrl = "https://hook"
  /\ req[1].resp.cached = Some(TRUE)
  /\ req[1].effects = {"rate_limit", "cache_read"}
  /\ \A k \in DOMAIN hooks : hooks[k].owner # 2

\* C38: every call of sendWebhookNotification that was started ends, before
\* or after the request that started it is answered: with a 2xx response,
\* with a 4xx response other than 429, or when its third attempt has failed;
\* it never makes more than three attempts, and each attempt ends with a
\* response, a rejected fetch or the abort of the 10 s timer.
C38_DeliveryTerminates ==
  /\ \A k \in 1..SequencesStarted("void") :
        (k \in DOMAIN hooks) ~>
          (k \in DOMAIN hooks /\ hooks[k].status \in {"succeeded", "failed", "exhausted"})
  /\ [](\A k \in DOMAIN hooks :
          /\ hooks[k].attempt <= maxRetries
          /\ hooks[k].status = "succeeded" => hooks[k].last = "2xx"
          /\ hooks[k].status = "failed" => hooks[k].last = "4xx"
          /\ hooks[k].status = "exhausted" =>
                (hooks[k].attempt = maxRetries /\ hooks[k].last \in {"429", "5xx", "network", "timeout"})
          /\ hooks[k].status = "pending" =>
                (hooks[k].attempt < maxRetries /\ hooks[k].last \in {"", "429", "5xx", "network", "timeout"}))

\* C38 witness: the request was answered 200 with webhookQueued, and its
\* delivery ended after three attempts, the last one aborted by the timer.
C38_Witness ==
  /\ req[1].pc = "done" /\ req[1].resp.webhookQueued = Some(TRUE)
  /\ Len(hooks) = 1
  /\ hooks[1].status = "exhausted" /\ hooks[1].attempt = maxRetries
  /\ hooks[1].last = "timeout"

\* C39: a scan of a finite payment history ends, in single-verify and in
\* every call of a batch: each page request that does not end it moves to the
\* next page of the history, and after a page of exactly limit records with
\* nothing behind it the next step ends the scan, with the counters of the
\* records seen when the extra page is served empty.
C39_ScanTerminates ==
  /\ (req[1].pc = "scan") ~> (req[1].pc # "scan")
  /\ \A k \in 1..MaxBatch :
        (k \in DOMAIN ent /\ ent[k].pc = "scan") ~> (k \in DOMAIN ent /\ ent[k].pc # "scan")
  /\ [][(req[1].pc = "scan" /\ req'[1].pc = "scan" /\ req' # req) =>
          LET w == trim(req[1].in.walletAddress) IN
          /\ req'[1].page = req[1].page + 1
          /\ req'[1].page <= Len(Pages(w))]_vars
  /\ [][\A k \in DOMAIN ent :
          (ent[k].pc = "scan" /\ k \in DOMAIN ent' /\ ent'[k].pc = "scan" /\ ent'[k] # ent[k]) =>
            LET w == trim(batch.in.verifications[k].walletAddress) IN
            /\ ent'[k].page = ent[k].page + 1
            /\ ent'[k].page <= Len(Pages(w))]_vars
  /\ [][LET q == req[1]
            w == trim(q.in.walletAddress)
        IN  (/\ q.pc = "scan" /\ q.page = Len(Pages(w)) /\ q.page >= 1
             /\ Len(PageOf(w, q.page)) = limit
             /\ req' # req) =>
              /\ req'[1].pc \in {"upsert", "done"}
              /\ req'[1].pc = "upsert" =>
                    \/ /\ req'[1].row.total_transactions = q.counted.total
                       /\ req'[1].row.unique_wallets = q.counted.unique
                    \/ /\ req'[1].row.total_transactions = 0
                       /\ req'[1].row.unique_wallets = 0]_vars

\* C39 witness: the only page of the wallet held exactly limit records; the
\* extra page request found nothing and the scan ended with the counters of
\* that page.
C39_Witness ==
  /\ req[1].pc = "upsert"
  /\ trim(req[1].in.walletAddress) = "GW2"
  /\ req[1].page = 1 /\ Len(PageOf("GW2", 1)) = limit /\ PageOf("GW2", 2) = <<>>
  /\ req[1].counted.total > 0
  /\ req[1].row.total_transactions = req[1].counted.total
  /\ req[1].row.unique_wallets = req[1].counted.unique

====
